---- MODULE Spec2Model ----
(***************************************************************************)
(* go-jira: the batch engine of cmd/go-jira (processIssues,                *)
(* processTransitions, processAssignee, addComments) and the function run  *)
(* that chains them, as a state machine of goroutines, a WaitGroup and a   *)
(* buffered channel.                                                       *)
(***************************************************************************)
EXTENDS Integers, Sequences, FiniteSets, TLC

\* ------------------------------------------------------------------ bounds

\* The largest number of issue keys getIssueKeys extracts from the reference.
MaxKeys == 2

\* The largest number of fragments a reference string is made of.
MaxParts == 4

\* The largest number of bytes of a text given to ConvertMentions.
MaxLen == 5

\* The largest number of nodes below the Document of a tree given to the
\* renderer.
MaxNodes == 4

\* The largest number of environment variables set when loadConfig is called.
MaxEnv == 4

\* The largest number of resolutions the server lists.
MaxResolutions == 3

\* ------------------------------------------------------- program constants

StatusOK == 200
StatusCreated == 201
StatusNoContent == 204

\* The bytes ConvertMentions tests for and writes: '@', '-', '_', '[', '~', ']'.
At == 64
Hyphen == 45
Underscore == 95
BracketOpen == 91
Tilde == 126
BracketClose == 93

\* ----------------------------------------------------------------- values

\* Names are sequences of characters, so that case folding is computed.
Done == <<"D", "o", "n", "e">>
DONE == <<"D", "O", "N", "E">>
Open == <<"O", "p", "e", "n">>
done == <<"d", "o", "n", "e">>
Empty == <<>>

\* unicode.SimpleFold on the letters the names use: the lower-case letter.
FoldChar(c) ==
  CASE c = "D" -> "d"
    [] c = "O" -> "o"
    [] c = "N" -> "n"
    [] c = "E" -> "e"
    [] OTHER -> c

\* strings.EqualFold(s, t)
EqualFold(s, t) ==
  /\ Len(s) = Len(t)
  /\ \A i \in 1..Len(s) : FoldChar(s[i]) = FoldChar(t[i])

\* Lists of legal transitions (jira.Issue.Transitions, in the server's
\* order): two names that fold to "done", none, and one after another name.
TransitionLists ==
  << << [ID |-> 21, Name |-> Done], [ID |-> 31, Name |-> DONE] >>,
     << [ID |-> 11, Name |-> Open] >>,
     << [ID |-> 11, Name |-> Open], [ID |-> 21, Name |-> Done] >> >>

\* The issues the tracker holds, as a table from key to legal transitions:
\* the lists above dealt to the keys in turn, from each starting point, and
\* the tracker on which no issue can be moved to "done".
Trackers ==
  { [k \in 1..MaxKeys |-> TransitionLists[((k + s) % Len(TransitionLists)) + 1]] :
      s \in 1..Len(TransitionLists) }
  \cup { [k \in 1..MaxKeys |-> TransitionLists[2]] }

\* The configurations run is started with (Config, after validateConfig).
Configs ==
  [ toTransition : {Empty, done},
    resolution : BOOLEAN,
    assignee : BOOLEAN,
    comment : BOOLEAN ]

\* What a call of the client library returns: an error (a transport failure,
\* an expired context, or a status outside 2xx, which the library turns into
\* an error), or no error and a response carrying a 2xx status code.
TransportErr == [err |-> TRUE, status |-> 0]
Statuses == {StatusOK, StatusCreated, StatusNoContent}
Responses == {TransportErr} \cup {[err |-> FALSE, status |-> s] : s \in Statuses}
NoResp == [err |-> FALSE, status |-> 0]
\* The error of a call made with a context whose deadline has passed.
DeadlineExceeded == [err |-> TRUE, status |-> 0, deadline |-> TRUE]

\* error values: nil, or an error with its message and the count it names.
Nil == [phase |-> "", msg |-> "", n |-> 0]
Error(m, k) == [phase |-> "", msg |-> m, n |-> k]
\* fmt.Errorf("<phase>: %w", err)
Wrap(p, e) == [phase |-> p, msg |-> e.msg, n |-> e.n]

\* The issue keys getIssueKeys returns: distinct, in first-occurrence order.
\* Key k stands for the k-th distinct match of the reference.
KeysUpTo(n) == [i \in 1..n |-> i]

Ops == {"processIssues", "processTransitions", "processAssignee", "addComments"}

VARIABLES
  config,     \* Config of the run
  tracker,    \* the tracker's issues: key -> legal transitions
  ctxDone,    \* the context of run has expired
  runPc,      \* position of run
  runErr,     \* the error run returns (Nil while running or on success)
  issueKeys,  \* getIssueKeys(config.ref, config.issuePattern)
  issues,     \* the issues collected by processIssues, then passed on by run
  op,         \* the batch function being executed, or "none"
  mainPc,     \* position of the batch function's own goroutine
  closerPc,   \* position of processIssues' goroutine that closes results
  wg,         \* sync.WaitGroup counter
  task,       \* the goroutines started by the loop, in start order
  results,    \* processIssues' channel
  errChan,    \* the mutation functions' channel
  closed,     \* the channel of the batch has been closed
  errs,       \* the errors collected from errChan
  ret,        \* the error the batch function returned
  calls,      \* every remote call issued so far
  logs        \* slog records written so far

vars == << config, tracker, ctxDone, runPc, runErr, issueKeys, issues, op, mainPc,
           closerPc, wg, task, results, errChan, closed, errs, ret, calls, logs >>

batchVars == << op, mainPc, closerPc, wg, task, results, errChan, closed, errs, ret >>

\* The functions that are checked on their own, each called on inputs of its
\* own: getIssueKeys(ref, issuePattern) and markdown.ConvertMentions(text).
VARIABLES
  ref,           \* getIssueKeys: the reference string
  issuePattern,  \* getIssueKeys: the custom pattern, or the empty one
  keysPc,        \* getIssueKeys: "idle", "call" or "done"
  gotKeys,       \* getIssueKeys: the keys returned
  text,          \* ConvertMentions: the argument of the first call
  mentionPc,     \* ConvertMentions: "idle", "call", "once" or "twice"
  converted,     \* ConvertMentions: what the last call returned
  firstPass      \* ConvertMentions: what the first call returned

keyVars == << ref, issuePattern, keysPc, gotKeys >>

mentionVars == << text, mentionPc, converted, firstPass >>

\* markdown.ToJira: the walk over the parsed tree and the JiraRenderer.
VARIABLES
  renderPc,      \* ToJira: "idle", "parsed", "walk", "walked" or "done"
  open,          \* ast.Walk: the containers entered and not yet left
  node,          \* ast.Walk: the node of the last visit
  entering,      \* ast.Walk: the flag of the last visit
  count,         \* the number of nodes entered below the Document
  w,             \* ToJira: buf, the buffer every handler writes to
  rbuf,          \* JiraRenderer.buf, the buffer the handlers test
  inList,        \* JiraRenderer.inList
  listDepth,     \* JiraRenderer.listDepth
  inCodeBlock,   \* JiraRenderer.inCodeBlock
  jira           \* ToJira: the string returned

renderVars == << renderPc, open, node, entering, count, w, rbuf, inList, listDepth,
                 inCodeBlock, jira >>

\* run's configuration: the environment, and what loadConfig and
\* validateConfig make of it.
VARIABLES
  env,           \* the names of the environment variables that are set
  loaded,        \* the Config loadConfig returned
  configErr,     \* the error validateConfig returned
  loadPc         \* loadConfig called on its own: "idle", "call" or "done"

loadVars == << env, loaded, configErr, loadPc >>

\* getResolutionID called on its own.
VARIABLES
  resolutions,   \* the resolutions the server lists, in its order
  resolution,    \* the name asked for
  lookup,        \* what Resolution.GetListWithContext returns
  resolutionPc,  \* "idle", "call" or "done"
  gotID,         \* the id returned
  gotErr         \* the error returned

resolutionVars == << resolutions, resolution, lookup, resolutionPc, gotID, gotErr >>

pureVars == << keyVars, mentionVars, renderVars, loadVars, resolutionVars >>

allVars == << vars, pureVars >>

\* getIssueKeys is not being called on its own.
KeysIdle ==
  /\ ref = << >>
  /\ issuePattern = << >>
  /\ keysPc = "idle"
  /\ gotKeys = << >>

\* ConvertMentions is not being called on its own.
MentionsIdle ==
  /\ text = << >>
  /\ mentionPc = "idle"
  /\ converted = << >>
  /\ firstPass = << >>

\* The Config before loadConfig: every string empty.
EmptyConfig ==
  [baseURL |-> "", insecure |-> "", username |-> "", password |-> "", token |-> "",
   ref |-> ""]

\* loadConfig is not being called on its own.
ConfigIdle ==
  /\ env = {}
  /\ loaded = EmptyConfig
  /\ configErr = Nil
  /\ loadPc = "idle"

\* getResolutionID is not being called on its own.
ResolutionIdle ==
  /\ resolutions = << >>
  /\ resolution = << >>
  /\ lookup = NoResp
  /\ resolutionPc = "idle"
  /\ gotID = ""
  /\ gotErr = Nil

\* The node of the walk before its first visit.
NoNode ==
  [type |-> "none", level |-> 0, info |-> << >>, literal |-> << >>, dest |-> << >>]

\* ToJira is not being called on its own.
RenderIdle ==
  /\ renderPc = "idle"
  /\ open = << >>
  /\ node = NoNode
  /\ entering = FALSE
  /\ count = 0
  /\ w = << >>
  /\ rbuf = << >>
  /\ inList = FALSE
  /\ listDepth = 0
  /\ inCodeBlock = FALSE
  /\ jira = << >>

\* ------------------------------------------------------- decisions of the code

\* Mutant of ExpectedStatus: every operation checks for 200.
ExpectedStatusOK(o) == StatusOK

\* The one status each operation accepts.
ExpectedStatus(o) ==
  CASE o = "processIssues" -> StatusOK
    [] o = "processTransitions" -> StatusNoContent
    [] o = "processAssignee" -> StatusNoContent
    [] o = "addComments" -> StatusCreated

\* if err != nil { ... }  if resp.StatusCode != http.StatusX { ... }
Failed(o, resp) == resp.err \/ resp.status # ExpectedStatus(o)

\* The error of a failed call: the library's err, or
\* fmt.Errorf("unexpected status: %s", resp.Status). No caller reads more of
\* it than that it is not nil.
ErrOf(resp) == "error"

\* Mutant of Matches: the test of the loop inverted.
MatchesInverted(transition, toTransition) == ~EqualFold(transition.Name, toTransition)

\* if !strings.EqualFold(transition.Name, toTransition) { continue }
Matches(transition, toTransition) == EqualFold(transition.Name, toTransition)

\* The indexes, from ti on, of the transitions the loop does not skip.
MatchesFrom(iss, ti) ==
  {j \in ti..Len(iss.Transitions) : Matches(iss.Transitions[j], config.toTransition)}

Min(S) == CHOOSE x \in S : \A y \in S : x <= y

AggregateMsg(o) ==
  CASE o = "processTransitions" -> "encountered %d errors while processing transitions"
    [] o = "processAssignee" -> "encountered %d errors while updating assignees"
    [] o = "addComments" -> "encountered %d errors while adding comments"

\* Mutant of AggregateError: an error is returned whatever was collected.
AggregateErrorAlways(o, es) == Error(AggregateMsg(o), Len(es))

\* Mutant of AggregateError: a single error is not reported.
AggregateErrorAboveOne(o, es) ==
  IF Len(es) > 1 THEN Error(AggregateMsg(o), Len(es)) ELSE Nil

\* if len(errs) > 0 { return fmt.Errorf("encountered %d errors ...", len(errs)) }
\* return nil
AggregateError(o, es) ==
  IF Len(es) > 0 THEN Error(AggregateMsg(o), Len(es)) ELSE Nil

\* Mutant of wgWait: the wait does not wait.
wgWaitNoBarrier == TRUE

\* wg.Wait() returns
wgWait == wg = 0

\* Mutant of Collect: the fetched issue is put in front of the list.
CollectInFront(iss, r) == IF r.err # "" THEN iss ELSE << r.issue >> \o iss

\* Mutant of Collect: the failed result is not skipped.
CollectWithoutSkip(iss, r) == Append(iss, r.issue)

\* processIssues' collector, on one received result.
Collect(iss, r) == IF r.err # "" THEN iss ELSE Append(iss, r.issue)

\* Mutant of IssuesError: the fetch failures are aggregated into an error.
IssuesErrorAggregate(iss) ==
  IF Len(iss) < Len(issueKeys)
    THEN Error("encountered %d errors while getting issues", Len(issueKeys) - Len(iss))
    ELSE Nil

\* return issues, nil
IssuesError(iss) == Nil

\* The remote API method each batch function calls.
Method(o) ==
  CASE o = "processIssues" -> "GetIssue"
    [] o = "processTransitions" -> "DoTransition"
    [] o = "processAssignee" -> "UpdateAssignee"
    [] o = "addComments" -> "AddComment"

\* Mutant of Answers: the expired context does not stop a request.
AnswersIgnoringCtx == Responses

\* A remote call made with ctx: once ctx is done the request fails in the
\* client and never reaches the tracker.
Answers == IF ctxDone THEN {DeadlineExceeded} ELSE Responses

\* The status with which the tracker answers a request it has carried out.
SuccessStatus(m) ==
  CASE m = "GetIssue" -> StatusOK
    [] m = "DoTransition" -> StatusNoContent
    [] m = "UpdateAssignee" -> StatusNoContent
    [] m = "AddComment" -> StatusCreated

\* The record of a remote call: the method, the issue, the transition id, and
\* whether the answer was the tracker's success answer for the method.
Request(m, key, id, ok) == [op |-> m, key |-> key, id |-> id, ok |-> ok]

Call(o, key, id, resp) ==
  Request(Method(o), key, id, ~resp.err /\ resp.status = SuccessStatus(Method(o)))

Log(level, msg, key) == [level |-> level, msg |-> msg, issue |-> key]

\* ------------------------------------------------------------- batch engine

\* The items the loop of the batch function ranges over.
Items == IF op = "processIssues" THEN issueKeys ELSE issues

\* Mutant of Capacity: the channel has room for one value fewer than there
\* are items.
CapacityOneLess == Len(Items) - 1

\* results := make(chan result, len(issueKeys))
\* errChan := make(chan error, len(issues))
Capacity == Len(Items)

\* ch <- v, for the values ch holds: a send on a closed channel panics
\* ("panic"), a send on a channel with room returns and the goroutine runs to
\* its end ("exit"), and any other send blocks ("send") until a receive has
\* made room or the channel has been closed.
AfterSend(ch) ==
  IF closed THEN "panic" ELSE IF Len(ch) < Capacity THEN "exit" ELSE "send"

\* The channel after ch <- v.
Sent(ch, v) == IF AfterSend(ch) = "exit" THEN Append(ch, v) ELSE ch

\* Mutant of AfterCall: a call that failed is issued again.
AfterCallRetry(o, resp, then) == IF Failed(o, resp) THEN "call" ELSE then

\* Where the goroutine goes after its call: to the send and the return that
\* follow it, whatever the call gave.
AfterCall(o, resp, then) == then

NewTask(item) ==
  [ pc |-> "call",
    iss |-> IF op = "processIssues" THEN [Key |-> item, Transitions |-> <<>>] ELSE item,
    resp |-> NoResp, ti |-> 1, found |-> FALSE ]

\* Mutant of AfterLoop: the function collects at once, and nothing closes
\* the channel.
AfterLoopNoClose(o) == "collect"

\* Mutant of AfterLoop: the mutation functions close without wg.Wait().
AfterLoopNoWait(o) == IF o = "processIssues" THEN "collect" ELSE "close"

\* Where the function's own goroutine goes after the loop.
AfterLoop(o) == IF o = "processIssues" THEN "collect" ELSE "wait"

\* for _, x := range items { wg.Add(1); go func(...) {...}(x) }
Spawn ==
  /\ mainPc = "loop"
  /\ Len(task) < Len(Items)
  /\ wg' = wg + 1
  /\ task' = Append(task, NewTask(Items[Len(task) + 1]))
  /\ IF Len(task) + 1 = Len(Items)
       THEN /\ mainPc' = AfterLoop(op)
            /\ closerPc' = IF op = "processIssues" THEN "wait" ELSE closerPc
       ELSE UNCHANGED << mainPc, closerPc >>
  /\ UNCHANGED << pureVars, config, tracker, ctxDone, runPc, runErr, issueKeys, issues, op,
                  results, errChan, closed, errs, ret, calls, logs >>

SetTask(i, t) == task' = [task EXCEPT ![i] = t]

\* The value processIssues' goroutine sends for a response.
Result(key, resp) ==
  IF Failed("processIssues", resp)
    THEN [issue |-> [Key |-> 0, Transitions |-> <<>>], err |-> ErrOf(resp), key |-> key]
    ELSE [issue |-> [Key |-> key, Transitions |-> tracker[key]], err |-> "", key |-> key]

\* processIssues' goroutine: jiraClient.Issue.GetWithContext, its checks, and
\* the send of the result; a goroutine blocked in the send goes on with it.
FetchCall(i) ==
  /\ op = "processIssues"
  /\ i \in 1..Len(task)
  /\ task[i].pc \in {"call", "send"}
  /\ task[i].pc = "send" => AfterSend(results) # "send"
  /\ \E resp \in (IF task[i].pc = "call" THEN Answers ELSE {task[i].resp}) :
       LET key == task[i].iss.Key IN
       /\ calls' = IF task[i].pc = "call" THEN calls \cup {Call(op, key, 0, resp)} ELSE calls
       /\ results' = Sent(results, Result(key, resp))
       /\ SetTask(i, [task[i] EXCEPT
            !.pc = AfterCall(op, resp, AfterSend(results)), !.resp = resp])
  /\ UNCHANGED << pureVars, config, tracker, ctxDone, runPc, runErr, issueKeys, issues, op,
                  mainPc, closerPc, wg, errChan, closed, errs, ret, logs >>

\* What a mutation goroutine puts on errChan for a response: errChan <- err
\* when the call failed, nothing otherwise.
SendErr(ch, o, resp) == IF Failed(o, resp) THEN Sent(ch, ErrOf(resp)) ELSE ch

\* Where a mutation goroutine is after that: in or past the send when the call
\* failed, at its end otherwise.
AfterSendErr(ch, o, resp) == IF Failed(o, resp) THEN AfterSend(ch) ELSE "exit"

\* processTransitions' goroutine: the next transition the loop does not skip
\* is applied with DoTransitionPayloadWithContext; a failure is sent and ends
\* the goroutine, a success goes on with the loop; a goroutine blocked in the
\* send goes on with it.
TransitionCall(i) ==
  /\ op = "processTransitions"
  /\ i \in 1..Len(task)
  /\ task[i].pc \in {"call", "send"}
  /\ task[i].pc = "send" => AfterSend(errChan) # "send"
  /\ MatchesFrom(task[i].iss, task[i].ti) # {}
  /\ \E resp \in (IF task[i].pc = "call" THEN Answers ELSE {task[i].resp}) :
       LET j == Min(MatchesFrom(task[i].iss, task[i].ti))
           key == task[i].iss.Key
       IN
       /\ calls' = IF task[i].pc = "call"
                      THEN calls \cup {Call(op, key, task[i].iss.Transitions[j].ID, resp)}
                      ELSE calls
       /\ errChan' = SendErr(errChan, op, resp)
       /\ IF Failed(op, resp)
            THEN /\ logs' = logs \cup {Log("error", "error moving issue", key)}
                 /\ SetTask(i, [task[i] EXCEPT
                      !.pc = AfterSend(errChan), !.resp = resp, !.found = TRUE, !.ti = j])
            ELSE /\ logs' = logs \cup {Log("info", "issue moved to transition", key)}
                 /\ SetTask(i, [task[i] EXCEPT
                      !.resp = resp, !.found = TRUE, !.ti = j + 1])
  /\ UNCHANGED << pureVars, config, tracker, ctxDone, runPc, runErr, issueKeys, issues, op,
                  mainPc, closerPc, wg, results, closed, errs, ret >>

\* processTransitions' goroutine: the loop over iss.Transitions ends.
TransitionLoopEnd(i) ==
  /\ op = "processTransitions"
  /\ i \in 1..Len(task)
  /\ task[i].pc = "call"
  /\ MatchesFrom(task[i].iss, task[i].ti) = {}
  /\ logs' = IF task[i].found THEN logs
             ELSE logs \cup {Log("warn", "transition not found for issue", task[i].iss.Key)}
  /\ SetTask(i, [task[i] EXCEPT !.pc = "exit"])
  /\ UNCHANGED << pureVars, config, tracker, ctxDone, runPc, runErr, issueKeys, issues, op,
                  mainPc, closerPc, wg, results, errChan, closed, errs, ret, calls >>

MutationLog(o, ok) ==
  CASE o = "processAssignee" -> IF ok THEN "assignee updated" ELSE "error updating assignee"
    [] o = "addComments" -> IF ok THEN "added comment to issue" ELSE "error adding comment"

\* processAssignee's and addComments' goroutine: the one call, its checks,
\* and the send of the error when it failed; a goroutine blocked in the send
\* goes on with it.
MutationCall(i) ==
  /\ op \in {"processAssignee", "addComments"}
  /\ i \in 1..Len(task)
  /\ task[i].pc \in {"call", "send"}
  /\ task[i].pc = "send" => AfterSend(errChan) # "send"
  /\ \E resp \in (IF task[i].pc = "call" THEN Answers ELSE {task[i].resp}) :
       LET key == task[i].iss.Key IN
       /\ calls' = IF task[i].pc = "call" THEN calls \cup {Call(op, key, 0, resp)} ELSE calls
       /\ errChan' = SendErr(errChan, op, resp)
       /\ logs' = logs \cup
            {Log(IF Failed(op, resp) THEN "error" ELSE "info",
                 MutationLog(op, ~Failed(op, resp)), key)}
       /\ SetTask(i, [task[i] EXCEPT
            !.pc = AfterCall(op, resp, AfterSendErr(errChan, op, resp)), !.resp = resp])
  /\ UNCHANGED << pureVars, config, tracker, ctxDone, runPc, runErr, issueKeys, issues, op,
                  mainPc, closerPc, wg, results, closed, errs, ret >>

\* defer wg.Done(): the goroutine ends, and its locals with it.
TaskDone(i) ==
  /\ i \in 1..Len(task)
  /\ task[i].pc = "exit"
  /\ wg' = wg - 1
  /\ SetTask(i, [task[i] EXCEPT !.pc = "done", !.resp = NoResp, !.ti = 1, !.found = FALSE])
  /\ UNCHANGED << pureVars, config, tracker, ctxDone, runPc, runErr, issueKeys, issues, op,
                  mainPc, closerPc, results, errChan, closed, errs, ret, calls, logs >>

\* wg.Wait() in the mutation functions' own goroutine
Wait ==
  /\ mainPc = "wait"
  /\ wgWait
  /\ mainPc' = "close"
  /\ UNCHANGED << pureVars, config, tracker, ctxDone, runPc, runErr, issueKeys, issues, op,
                  closerPc, wg, task, results, errChan, closed, errs, ret, calls, logs >>

\* close(errChan)
Close ==
  /\ mainPc = "close"
  /\ closed' = TRUE
  /\ mainPc' = "collect"
  /\ UNCHANGED << pureVars, config, tracker, ctxDone, runPc, runErr, issueKeys, issues, op,
                  closerPc, wg, task, results, errChan, errs, ret, calls, logs >>

\* go func() { wg.Wait(); close(results) }()
CloserWait ==
  /\ closerPc = "wait"
  /\ wgWait
  /\ closerPc' = "close"
  /\ UNCHANGED << pureVars, config, tracker, ctxDone, runPc, runErr, issueKeys, issues, op, mainPc,
                  wg, task, results, errChan, closed, errs, ret, calls, logs >>

CloserClose ==
  /\ closerPc = "close"
  /\ closed' = TRUE
  /\ closerPc' = "done"
  /\ UNCHANGED << pureVars, config, tracker, ctxDone, runPc, runErr, issueKeys, issues, op, mainPc,
                  wg, task, results, errChan, errs, ret, calls, logs >>

\* for err := range errChan { errs = append(errs, err) }
CollectErr ==
  /\ op \in {"processTransitions", "processAssignee", "addComments"}
  /\ mainPc = "collect"
  /\ errChan # <<>>
  /\ errs' = Append(errs, Head(errChan))
  /\ errChan' = Tail(errChan)
  /\ UNCHANGED << pureVars, config, tracker, ctxDone, runPc, runErr, issueKeys, issues, op, mainPc,
                  closerPc, wg, task, results, closed, ret, calls, logs >>

\* The range loop ends on the closed, drained channel; the function returns.
ReturnErrs ==
  /\ op \in {"processTransitions", "processAssignee", "addComments"}
  /\ mainPc = "collect"
  /\ errChan = <<>>
  /\ closed
  /\ ret' = AggregateError(op, errs)
  /\ mainPc' = "ret"
  /\ UNCHANGED << pureVars, config, tracker, ctxDone, runPc, runErr, issueKeys, issues, op,
                  closerPc, wg, task, results, errChan, closed, errs, calls, logs >>

\* for r := range results { if r.err != nil { slog.Error(...); continue }
\*                          issues = append(issues, r.issue) }
CollectIssue ==
  /\ op = "processIssues"
  /\ mainPc = "collect"
  /\ results # <<>>
  /\ LET r == Head(results) IN
       /\ issues' = Collect(issues, r)
       /\ logs' = IF r.err # "" THEN logs \cup {Log("error", "error getting issue", r.key)}
                  ELSE logs
  /\ results' = Tail(results)
  /\ UNCHANGED << pureVars, config, tracker, ctxDone, runPc, runErr, issueKeys, op, mainPc,
                  closerPc, wg, task, errChan, closed, errs, ret, calls >>

ReturnIssues ==
  /\ op = "processIssues"
  /\ mainPc = "collect"
  /\ results = <<>>
  /\ closed
  /\ ret' = IssuesError(issues)
  /\ mainPc' = "ret"
  /\ UNCHANGED << pureVars, config, tracker, ctxDone, runPc, runErr, issueKeys, issues, op,
                  closerPc, wg, task, results, errChan, closed, errs, calls, logs >>

\* ------------------------------------------------ loadConfig, validateConfig

\* The environment variables the README documents for the connection
\* (part_001:43-57), and the variables of the names GetGlobalValue builds for
\* the keys base_url, insecure, username, password, token and ref.
EnvNames ==
  { "JIRA_BASE_URL", "JIRA_USERNAME", "JIRA_PASSWORD", "JIRA_TOKEN", "JIRA_INSECURE",
    "BASE_URL", "INSECURE", "USERNAME", "PASSWORD", "TOKEN", "REF",
    "INPUT_BASE_URL", "INPUT_INSECURE", "INPUT_USERNAME", "INPUT_PASSWORD",
    "INPUT_TOKEN", "INPUT_REF" }

\* The value of a variable that is set: a non-empty string that tells the
\* variable it comes from.
ValueOf(name) == "value of " \o name

\* os.Getenv(name): the value, or "" for a variable that is not set
Getenv(e, name) == IF name \in e THEN ValueOf(name) ELSE ""

\* strings.ToUpper(key), on the keys loadConfig passes
ToUpper(key) ==
  CASE key = "base_url" -> "BASE_URL"
    [] key = "insecure" -> "INSECURE"
    [] key = "username" -> "USERNAME"
    [] key = "password" -> "PASSWORD"
    [] key = "token" -> "TOKEN"
    [] key = "ref" -> "REF"

\* key = strings.ToUpper(key)
\* if value := os.Getenv("INPUT_" + key); value != "" { return value }
\* return os.Getenv(key)
GetGlobalValue(e, key) ==
  LET value == Getenv(e, "INPUT_" \o ToUpper(key))
  IN IF value # "" THEN value ELSE Getenv(e, ToUpper(key))

\* loadConfig: the fields that validateConfig and the client read
loadConfig(e) ==
  [ baseURL |-> GetGlobalValue(e, "base_url"),
    insecure |-> GetGlobalValue(e, "insecure"),
    username |-> GetGlobalValue(e, "username"),
    password |-> GetGlobalValue(e, "password"),
    token |-> GetGlobalValue(e, "token"),
    ref |-> GetGlobalValue(e, "ref") ]

\* Mutant of validateConfig: a username or a password alone is accepted.
validateConfigAnyCredential(c) ==
  IF c.baseURL = "" THEN Error("base_url is required", 0)
  ELSE IF c.ref = "" THEN Error("ref is required", 0)
  ELSE IF c.username = "" /\ c.password = "" /\ c.token = ""
    THEN Error("authentication credentials required (username/password or token)", 0)
  ELSE Nil

\* validateConfig
validateConfig(c) ==
  IF c.baseURL = "" THEN Error("base_url is required", 0)
  ELSE IF c.ref = "" THEN Error("ref is required", 0)
  ELSE IF c.username = "" /\ c.password = "" /\ c.token = ""
    THEN Error("authentication credentials required (username/password or token)", 0)
  ELSE IF c.username # "" /\ c.password = ""
    THEN Error("password is required when username is provided", 0)
  ELSE IF c.password # "" /\ c.username = ""
    THEN Error("username is required when password is provided", 0)
  ELSE Nil

\* The environments run is started in: one that gives a valid configuration,
\* and one for each way of being invalid that validateConfig tests.
RunEnvs ==
  { { "BASE_URL", "REF", "TOKEN" },
    { "REF", "TOKEN" },
    { "BASE_URL", "TOKEN" },
    { "BASE_URL", "REF" },
    { "BASE_URL", "REF", "USERNAME" },
    { "BASE_URL", "REF", "PASSWORD" } }

\* ---------------------------------------------------------------------- run

Phases == << "loadConfig", "getSelf", "getUser", "processIssues", "getResolutionID",
             "processTransitions", "processAssignee", "addComments", "done" >>

PhaseIndex(p) == CHOOSE i \in 1..Len(Phases) : Phases[i] = p

\* The conditions under which run executes each of its steps.
PhaseEnabled(p, cfg) ==
  CASE p = "getUser" -> cfg.assignee               \* if config.assignee != ""
    [] p = "getResolutionID" -> cfg.resolution     \* if config.resolution != ""
    [] p = "processTransitions" -> cfg.toTransition # Empty
    [] p = "processAssignee" -> cfg.assignee       \* if assignee != nil
    [] p = "addComments" -> cfg.comment            \* if config.comment != ""
    [] OTHER -> TRUE

\* The step run executes after step p has succeeded.
NextPhase(p, cfg) ==
  Phases[Min({i \in (PhaseIndex(p) + 1)..Len(Phases) : PhaseEnabled(Phases[i], cfg)})]

\* The prefix run puts before the error of a step.
PhaseError(p) ==
  CASE p = "loadConfig" -> "invalid configuration"
    [] p = "getSelf" -> "error getting self"
    [] p = "getUser" -> "error getting assignee"
    [] p = "processIssues" -> "error processing issues"
    [] p = "getResolutionID" -> "error getting resolution"
    [] p = "processTransitions" -> "error processing transitions"
    [] p = "processAssignee" -> "error processing assignee"
    [] p = "addComments" -> "error adding comments"

\* Mutant of AfterPhase: the error of a step does not end run.
AfterPhaseIgnoringError(p, e, cfg) == NextPhase(p, cfg)

\* if err := step(...); err != nil { return fmt.Errorf("...: %w", err) }
AfterPhase(p, e, cfg) == IF e # Nil THEN "done" ELSE NextPhase(p, cfg)

\* Mutant of Targets: run hands on an issue for every extracted key.
TargetsAllKeys(fetched, keys) ==
  [i \in 1..Len(keys) |-> [Key |-> keys[i], Transitions |-> tracker[keys[i]]]]

\* The issues run hands to the mutation functions.
Targets(fetched, keys) == fetched


\* config := loadConfig()
\* if err := validateConfig(config); err != nil {
\*   return fmt.Errorf("invalid configuration: %w", err) }
RunLoadConfig ==
  /\ runPc = "loadConfig"
  /\ LET c == loadConfig(env)
         e == validateConfig(c) IN
       /\ loaded' = c
       /\ configErr' = e
       /\ runPc' = AfterPhase(runPc, e, config)
       /\ runErr' = IF e # Nil THEN Wrap(PhaseError(runPc), e) ELSE Nil
  /\ UNCHANGED << keyVars, mentionVars, renderVars, resolutionVars, env, loadPc, config, tracker, ctxDone,
                  issueKeys, issues, op, mainPc, closerPc, wg, task, results, errChan,
                  closed, errs, ret, calls, logs >>

\* user, err := getSelf(ctx, jiraClient); assignee, err = getUser(...)
\* Both return the library's error and check no status.
RunLookup ==
  /\ runPc \in {"getSelf", "getUser"}
  /\ \E resp \in Answers :
       LET e == IF resp.err THEN Error(ErrOf(resp), 0) ELSE Nil IN
       /\ calls' = calls \cup {Request(runPc, 0, 0, e = Nil)}
       /\ runPc' = AfterPhase(runPc, e, config)
       /\ runErr' = IF e # Nil THEN Wrap(PhaseError(runPc), e) ELSE Nil
  /\ UNCHANGED << pureVars, config, tracker, ctxDone, issueKeys, issues, op, mainPc, closerPc, wg,
                  task, results, errChan, closed, errs, ret, logs >>

\* config.resolution, err = getResolutionID(ctx, jiraClient, config.resolution)
\* An error, or the id of a matching resolution, or "" when none matches.
RunResolution ==
  /\ runPc = "getResolutionID"
  /\ \E resp \in Answers, match \in BOOLEAN :
       LET e == IF resp.err \/ resp.status # StatusOK
                  THEN Error(ErrOf(resp), 0) ELSE Nil IN
       /\ calls' = calls \cup {Request(runPc, 0, 0, e = Nil)}
       /\ runPc' = AfterPhase(runPc, e, config)
       /\ runErr' = IF e # Nil THEN Wrap(PhaseError(runPc), e) ELSE Nil
       /\ config' = IF e # Nil THEN config ELSE [config EXCEPT !.resolution = match]
  /\ UNCHANGED << pureVars, tracker, ctxDone, issueKeys, issues, op, mainPc, closerPc, wg,
                  task, results, errChan, closed, errs, ret, logs >>

\* Mutant of NoKeysError: the batch is started over no key.
NoKeysErrorNever(n) == Nil

\* processIssues: if len(issueKeys) == 0 {
\*   return nil, errors.New("no issue keys found in ref") }
NoKeysError(n) == IF n = 0 THEN Error("no issue keys found in ref", 0) ELSE Nil

\* Mutant of NoIssuesError: run goes on without any issue.
NoIssuesErrorNever(fetched) == Nil

\* run: if len(issues) == 0 { return errors.New("no issues found") }
NoIssuesError(fetched) == IF Len(fetched) = 0 THEN Error("no issues found", 0) ELSE Nil

\* run calls a batch function; the function allocates its channel and
\* WaitGroup. processIssues returns at once when no key was extracted, and
\* a loop over no item is left at once.
RunCall ==
  /\ runPc \in Ops
  /\ op = "none"
  /\ op' = runPc
  /\ issues' = IF runPc = "processIssues" THEN <<>> ELSE Targets(issues, issueKeys)
  /\ LET n == IF runPc = "processIssues" THEN Len(issueKeys) ELSE Len(issues') IN
       IF runPc = "processIssues" /\ NoKeysError(n) # Nil
         THEN /\ ret' = NoKeysError(n)
              /\ mainPc' = "ret"
         ELSE /\ ret' = Nil
              /\ mainPc' = IF n = 0 THEN AfterLoop(runPc) ELSE "loop"
  /\ closerPc' = "idle"
  /\ wg' = 0
  /\ task' = <<>>
  /\ results' = <<>>
  /\ errChan' = <<>>
  /\ closed' = FALSE
  /\ errs' = <<>>
  /\ UNCHANGED << pureVars, config, tracker, ctxDone, runPc, runErr, issueKeys, calls, logs >>

\* The batch function has returned to run; its goroutines, channel and
\* WaitGroup are gone.
RunReturn ==
  /\ op # "none"
  /\ mainPc = "ret"
  /\ op' = "none"
  /\ mainPc' = "idle"
  /\ closerPc' = "idle"
  /\ task' = <<>>
  /\ results' = <<>>
  /\ errChan' = <<>>
  /\ closed' = FALSE
  /\ errs' = <<>>
  /\ ret' = Nil
  /\ IF ret # Nil
       THEN /\ runErr' = Wrap(PhaseError(op), ret)
            /\ runPc' = AfterPhase(op, ret, config)
       ELSE IF op = "processIssues" /\ NoIssuesError(issues) # Nil
         THEN /\ runErr' = NoIssuesError(issues)
              /\ runPc' = "done"
         ELSE /\ runErr' = Nil
              /\ runPc' = AfterPhase(op, ret, config)
  /\ UNCHANGED << pureVars, config, tracker, ctxDone, issueKeys, issues, wg, calls, logs >>

\* ctx, cancel := context.WithTimeout(context.Background(), 5*time.Minute)
\* The deadline passes while run is executing.
Expire ==
  /\ ~ctxDone
  /\ runPc \notin { "loadConfig", "done" }
  /\ ctxDone' = TRUE
  /\ UNCHANGED << pureVars, config, tracker, runPc, runErr, issueKeys, issues, op, mainPc, closerPc,
                  wg, task, results, errChan, closed, errs, ret, calls, logs >>

Init ==
  /\ config \in Configs
  /\ tracker \in Trackers
  /\ issueKeys \in {KeysUpTo(n) : n \in 0..MaxKeys}
  /\ ctxDone = FALSE
  /\ runPc = "loadConfig"
  /\ runErr = Nil
  /\ issues = <<>>
  /\ op = "none"
  /\ mainPc = "idle"
  /\ closerPc = "idle"
  /\ wg = 0
  /\ task = <<>>
  /\ results = <<>>
  /\ errChan = <<>>
  /\ closed = FALSE
  /\ errs = <<>>
  /\ ret = Nil
  /\ calls = {}
  /\ logs = {}
  /\ env \in RunEnvs
  /\ loaded = EmptyConfig
  /\ configErr = Nil
  /\ loadPc = "idle"
  /\ KeysIdle
  /\ MentionsIdle
  /\ RenderIdle
  /\ ResolutionIdle

TaskStep(i) ==
  \/ FetchCall(i)
  \/ TransitionCall(i)
  \/ TransitionLoopEnd(i)
  \/ MutationCall(i)
  \/ TaskDone(i)

Next ==
  \/ RunLoadConfig
  \/ RunLookup
  \/ RunResolution
  \/ RunCall
  \/ RunReturn
  \/ Expire
  \/ Spawn
  \/ \E i \in 1..MaxKeys : TaskStep(i)
  \/ Wait
  \/ Close
  \/ CloserWait
  \/ CloserClose
  \/ CollectErr
  \/ ReturnErrs
  \/ CollectIssue
  \/ ReturnIssues

Spec == Init /\ [][Next]_vars

\* ---------------------------------------- a mutation function called directly

\* The lists a caller hands to a mutation function: the issues of the first
\* n keys of the tracker, for every n from 0.
IssueLists ==
  { [i \in 1..n |-> [Key |-> i, Transitions |-> tracker[i]]] : n \in 0..MaxKeys }

\* processTransitions, processAssignee or addComments is called with a list
\* of the caller's choice, as the tests of the package call them; the
\* functions configured after it are called with the same list.
InitCall ==
  /\ config \in Configs
  /\ tracker \in Trackers
  /\ runPc \in {"processTransitions", "processAssignee", "addComments"}
  /\ PhaseEnabled(runPc, config)
  /\ issues \in IssueLists
  /\ issueKeys = << >>
  /\ ctxDone = FALSE
  /\ runErr = Nil
  /\ op = "none"
  /\ mainPc = "idle"
  /\ closerPc = "idle"
  /\ wg = 0
  /\ task = << >>
  /\ results = << >>
  /\ errChan = << >>
  /\ closed = FALSE
  /\ errs = << >>
  /\ ret = Nil
  /\ calls = {}
  /\ logs = {}
  /\ KeysIdle
  /\ MentionsIdle
  /\ RenderIdle
  /\ ResolutionIdle
  /\ ConfigIdle

NextCall ==
  \/ RunCall
  \/ RunReturn
  \/ Expire
  \/ Spawn
  \/ \E i \in 1..MaxKeys :
       \/ TransitionCall(i)
       \/ TransitionLoopEnd(i)
       \/ MutationCall(i)
       \/ TaskDone(i)
  \/ Wait
  \/ Close
  \/ CollectErr
  \/ ReturnErrs

SpecCall == InitCall /\ [][NextCall]_vars

\* ------------------------------------- one batch function, scheduled fairly

\* One batch function is called, over the keys or the issues of the caller's
\* choice, none included, under a configuration that asks for that function
\* and for no other.
InitBatch ==
  /\ runPc \in Ops
  /\ config \in { c \in Configs : \A o \in Ops : PhaseEnabled(o, c) <=> o \in { "processIssues", runPc } }
  /\ tracker \in Trackers
  /\ issueKeys \in IF runPc = "processIssues"
                    THEN { KeysUpTo(n) : n \in 0..MaxKeys } ELSE { << >> }
  /\ issues \in IF runPc = "processIssues" THEN { << >> } ELSE IssueLists
  /\ ctxDone = FALSE
  /\ runErr = Nil
  /\ op = "none"
  /\ mainPc = "idle"
  /\ closerPc = "idle"
  /\ wg = 0
  /\ task = << >>
  /\ results = << >>
  /\ errChan = << >>
  /\ closed = FALSE
  /\ errs = << >>
  /\ ret = Nil
  /\ calls = {}
  /\ logs = {}
  /\ KeysIdle
  /\ MentionsIdle
  /\ RenderIdle
  /\ ResolutionIdle
  /\ ConfigIdle

\* The steps of the function's own goroutine, from the call to the return.
MainStep ==
  \/ RunCall
  \/ Spawn
  \/ Wait
  \/ Close
  \/ CollectErr
  \/ ReturnErrs
  \/ CollectIssue
  \/ ReturnIssues

\* The steps of processIssues' closer goroutine.
CloserStep ==
  \/ CloserWait
  \/ CloserClose

NextBatch ==
  \/ MainStep
  \/ CloserStep
  \/ \E i \in 1..MaxKeys : TaskStep(i)
  \/ Expire

\* The Go scheduler runs every goroutine that can run, and every remote call
\* returns: the function's goroutine, the closer and each spawned goroutine
\* take the step they are able to take. The deadline may pass or not.
Fairness ==
  /\ WF_vars(MainStep)
  /\ WF_vars(CloserStep)
  /\ \A i \in 1..MaxKeys : WF_vars(TaskStep(i))

SpecBatch == InitBatch /\ [][NextBatch]_vars /\ Fairness

\* ------------------------------------------------------------ getIssueKeys

\* run is not executing: the state in which a function is called on its own.
RunIdle ==
  /\ config = [toTransition |-> Empty, resolution |-> FALSE, assignee |-> FALSE,
               comment |-> FALSE]
  /\ tracker = [k \in 1..MaxKeys |-> TransitionLists[2]]
  /\ issueKeys = << >>
  /\ ctxDone = FALSE
  /\ runPc = "done"
  /\ runErr = Nil
  /\ issues = << >>
  /\ op = "none"
  /\ mainPc = "idle"
  /\ closerPc = "idle"
  /\ wg = 0
  /\ task = << >>
  /\ results = << >>
  /\ errChan = << >>
  /\ closed = FALSE
  /\ errs = << >>
  /\ ret = Nil
  /\ calls = {}
  /\ logs = {}

\* Character classes of the patterns: [A-Z], [0-9], [1-9].
Upper ==
  { "A", "B", "C", "D", "E", "F", "G", "H", "I", "J", "K", "L", "M",
    "N", "O", "P", "Q", "R", "S", "T", "U", "V", "W", "X", "Y", "Z" }
Digit == { "0", "1", "2", "3", "4", "5", "6", "7", "8", "9" }
NonZero == Digit \ { "0" }

\* A compiled pattern is a sequence of items, each a character class repeated
\* min to max times (max < 0: any number of times), as many as possible
\* first, and the capture group it contains, from one item to another.
Item(class, min, max) == [class |-> class, min |-> min, max |-> max]
Lit(c) == Item({c}, 1, 1)

\* Mutant of issueAlphanumericPattern: the number may start with 0.
issuePatternAnyNumber ==
  [ items |-> << Item(Upper, 1, 10), Lit("-"), Item(Digit, 1, -1) >>,
    group |-> << 1, 3 >> ]

\* regexp.MustCompile(`([A-Z]{1,10}-[1-9][0-9]*)`)
issueAlphanumericPattern ==
  [ items |-> << Item(Upper, 1, 10), Lit("-"), Item(NonZero, 1, 1), Item(Digit, 0, -1) >>,
    group |-> << 1, 4 >> ]

\* issuePattern == "": no custom pattern.
EmptyPattern == [ items |-> << >>, group |-> << 1, 0 >> ]

\* Custom patterns: `(ABC-[0-9]+)`, and `ABC-([0-9]+)`, whose capture group
\* is a part of the match only.
PatternABC ==
  [ items |-> << Lit("A"), Lit("B"), Lit("C"), Lit("-"), Item(Digit, 1, -1) >>,
    group |-> << 1, 5 >> ]
PatternABCNumber ==
  [ items |-> << Lit("A"), Lit("B"), Lit("C"), Lit("-"), Item(Digit, 1, -1) >>,
    group |-> << 5, 5 >> ]

Patterns == { EmptyPattern, PatternABC, PatternABCNumber }

RECURSIVE Run(_, _, _, _)
\* The largest number of characters of the class, up to limit, that s holds
\* from position pos on.
Run(class, s, pos, limit) ==
  IF limit = 0 \/ pos > Len(s) THEN 0
  ELSE IF s[pos] \in class THEN 1 + Run(class, s, pos + 1, limit - 1)
  ELSE 0

RECURSIVE MatchItems(_, _, _, _)
RECURSIVE TryCounts(_, _, _, _, _)

\* Item k repeated n times and the items after it, or fewer repetitions when
\* those do not match: the positions at which the items k.. start and the
\* position after the match, or << >> when there is no match.
TryCounts(items, k, s, pos, n) ==
  IF n < items[k].min THEN << >>
  ELSE LET rest == MatchItems(items, k + 1, s, pos + n)
       IN IF rest # << >> THEN << pos >> \o rest
          ELSE TryCounts(items, k, s, pos, n - 1)

\* The match of the items k.. at position pos of s that the regexp package
\* prefers (leftmost-first, greedy repetition).
MatchItems(items, k, s, pos) ==
  IF k > Len(items) THEN << pos >>
  ELSE LET limit == IF items[k].max < 0 THEN Len(s) ELSE items[k].max
       IN TryCounts(items, k, s, pos, Run(items[k].class, s, pos, limit))

RECURSIVE FindAll(_, _, _)
\* The successive non-overlapping matches of the pattern in s from position
\* from on, each as its item positions: the leftmost match, then the matches
\* after it. (No pattern here matches the empty string.)
FindAll(pattern, s, from) ==
  IF from > Len(s) THEN << >>
  ELSE LET m == MatchItems(pattern.items, 1, s, from)
       IN IF m = << >> THEN FindAll(pattern, s, from + 1)
          ELSE << m >> \o FindAll(pattern, s, m[Len(m)])

\* The text of a match, and the text of its capture group.
MatchText(s, m) == SubSeq(s, m[1], m[Len(m)] - 1)
GroupText(pattern, s, m) == SubSeq(s, m[pattern.group[1]], m[pattern.group[2] + 1] - 1)

\* pattern.FindAllString(ref, -1)
FindAllString(pattern, s) ==
  LET all == FindAll(pattern, s, 1) IN [i \in 1..Len(all) |-> MatchText(s, all[i])]

\* A custom pattern that is not a regular expression, `(ABC-[0-9]+` : what the
\* compiler has when it gives up, and its error.
InvalidPattern ==
  [ items |-> << Lit("A"), Lit("B"), Lit("C"), Lit("-"), Item(Digit, 1, -1) >>,
    group |-> << 1, 5 >>,
    error |-> "missing closing )" ]

\* regexp.Compile returns no error for the pattern.
Compiles(p) == "error" \notin DOMAIN p

\* Mutant of Panics: an invalid pattern is used as far as it was compiled.
PanicsNever(p) == FALSE

\* if issuePattern != "" { pattern = regexp.MustCompile(issuePattern) }:
\* MustCompile panics when the pattern does not compile.
Panics(p) == p # EmptyPattern /\ ~Compiles(p)

\* Mutant of PatternFor: the default pattern is used whatever was supplied.
PatternForDefault(p) == issueAlphanumericPattern

\* pattern := issueAlphanumericPattern
\* if issuePattern != "" { pattern = regexp.MustCompile(issuePattern) }
PatternFor(p) == IF p # EmptyPattern THEN p ELSE issueAlphanumericPattern

\* Mutant of Seen: no match is taken for a duplicate.
SeenNever(issueKeySet, match) == FALSE

\* if _, ok := issueKeySet[match]; ok { continue }
Seen(issueKeySet, match) == match \in issueKeySet

RECURSIVE Dedup(_, _, _, _)
\* for _, match := range matches { ... }, from the i-th match on
Dedup(matches, i, issueKeySet, keys) ==
  IF i > Len(matches) THEN keys
  ELSE IF Seen(issueKeySet, matches[i])
    THEN Dedup(matches, i + 1, issueKeySet, keys)
    ELSE Dedup(matches, i + 1, issueKeySet \cup { matches[i] }, Append(keys, matches[i]))

getIssueKeys(r, p) == Dedup(FindAllString(PatternFor(p), r), 1, {}, << >>)

\* The pieces reference strings are made of: a letter, ten letters (eleven
\* after another letter), a lower-case letter, a hyphen, the digit 0, another
\* digit, a blank, and two keys.
Fragments ==
  { << "A" >>,
    << "B", "C", "D", "E", "F", "G", "H", "I", "J", "K" >>,
    << "a" >>,
    << "-" >>,
    << "0" >>,
    << "7" >>,
    << " " >>,
    << "A", "B", "C", "-", "1", "2" >>,
    << "A", "-", "7" >> }

RECURSIVE RefsOf(_)
\* The strings made of at most n fragments.
RefsOf(n) ==
  IF n = 0 THEN { << >> }
  ELSE LET shorter == RefsOf(n - 1)
       IN shorter \cup { r \o f : r \in shorter, f \in Fragments }

InitKeys ==
  /\ RunIdle
  /\ MentionsIdle
  /\ RenderIdle
  /\ ConfigIdle
  /\ ResolutionIdle
  /\ ref \in RefsOf(MaxParts)
  /\ issuePattern \in Patterns \cup { InvalidPattern }
  /\ keysPc = "call"
  /\ gotKeys = << >>

\* issueKeys := getIssueKeys(config.ref, config.issuePattern): the keys are
\* returned, or the panic of MustCompile leaves the function and its callers,
\* none of which recovers.
CallGetIssueKeys ==
  /\ keysPc = "call"
  /\ IF Panics(issuePattern)
       THEN /\ keysPc' = "panic"
            /\ gotKeys' = gotKeys
       ELSE /\ keysPc' = "done"
            /\ gotKeys' = getIssueKeys(ref, issuePattern)
  /\ UNCHANGED << vars, mentionVars, renderVars, loadVars, resolutionVars, ref, issuePattern >>

NextKeys == CallGetIssueKeys

SpecKeys == InitKeys /\ [][NextKeys]_allVars

\* --------------------------------------------------------- ConvertMentions

\* A text is a sequence of bytes. rune(text[i]) is the code point with the
\* value of the byte, so these are unicode.IsLetter and unicode.IsNumber on
\* the code points up to U+00FF.
IsLetter(c) ==
  \/ c \in 65..90
  \/ c \in 97..122
  \/ c \in { 170, 181, 186 }
  \/ c \in 192..214
  \/ c \in 216..246
  \/ c \in 248..255

IsNumber(c) ==
  \/ c \in 48..57
  \/ c \in { 178, 179, 185 }
  \/ c \in 188..190

\* return unicode.IsLetter(c) || unicode.IsNumber(c) || c == '-' || c == '_'
isValidMentionChar(c) == IsLetter(c) \/ IsNumber(c) \/ c = Hyphen \/ c = Underscore

\* strings.Contains(text, "@")
ContainsAt(t) == \E i \in 1..Len(t) : t[i] = At

\* Mutant of StartsMention: the byte after the '@' is not looked at.
StartsMentionAnyAt(t, i) == t[i] = At

\* text[i] == '@' && i+1 < length && isValidMentionChar(rune(text[i+1]))
StartsMention(t, i) == t[i] = At /\ i + 1 <= Len(t) /\ isValidMentionChar(t[i + 1])

RECURSIVE MentionEnd(_, _)
\* for i < length && isValidMentionChar(rune(text[i])) { ...; i++ }:
\* the value of i when the loop is left.
MentionEnd(t, i) ==
  IF i <= Len(t) /\ isValidMentionChar(t[i]) THEN MentionEnd(t, i + 1) ELSE i

\* Mutant of AfterMention: the scan goes on at the byte after the mention.
AfterMentionRescan(t, e, builder) == [i |-> e, builder |-> builder]

\* Mutant of AfterMention: the byte after the mention is skipped unwritten.
AfterMentionDropByte(t, e, builder) == [i |-> e + 1, builder |-> builder]

\* if i < length { builder.WriteByte(text[i]) }; continue (and the loop's i++)
AfterMention(t, e, builder) ==
  [ i |-> e + 1,
    builder |-> IF e <= Len(t) THEN Append(builder, t[e]) ELSE builder ]

RECURSIVE MentionLoop(_, _, _)
\* for i := 0; i < length; i++ { ... }, from position i on
MentionLoop(t, i, builder) ==
  IF i > Len(t) THEN builder
  ELSE IF StartsMention(t, i)
    THEN LET e == MentionEnd(t, i + 1)
             written == builder \o << BracketOpen, Tilde >> \o SubSeq(t, i + 1, e - 1)
                          \o << BracketClose >>
             after == AfterMention(t, e, written)
         IN MentionLoop(t, after.i, after.builder)
    ELSE MentionLoop(t, i + 1, Append(builder, t[i]))

ConvertMentions(t) == IF ~ContainsAt(t) THEN t ELSE MentionLoop(t, 1, << >>)

\* The bytes the texts are made of: '@', a letter, a digit, '-', '_', '!',
\* and the two bytes of the UTF-8 encoding of U+00E9.
TextBytes == { At, 97, 49, Hyphen, Underscore, 33, 195, 169 }

RECURSIVE TextsOf(_)
\* The texts of at most n bytes.
TextsOf(n) ==
  IF n = 0 THEN { << >> }
  ELSE LET shorter == TextsOf(n - 1)
       IN shorter \cup { Append(t, b) : t \in shorter, b \in TextBytes }

InitMentions ==
  /\ RunIdle
  /\ KeysIdle
  /\ RenderIdle
  /\ ConfigIdle
  /\ ResolutionIdle
  /\ text \in TextsOf(MaxLen)
  /\ mentionPc = "call"
  /\ converted = << >>
  /\ firstPass = << >>

\* ConvertMentions(text)
CallConvertMentions ==
  /\ mentionPc = "call"
  /\ converted' = ConvertMentions(text)
  /\ firstPass' = converted'
  /\ mentionPc' = "once"
  /\ UNCHANGED << vars, keyVars, renderVars, loadVars, resolutionVars, text >>

\* ConvertMentions is given what it returned.
CallConvertMentionsAgain ==
  /\ mentionPc = "once"
  /\ converted' = ConvertMentions(converted)
  /\ mentionPc' = "twice"
  /\ UNCHANGED << vars, keyVars, renderVars, loadVars, resolutionVars, text, firstPass >>

NextMentions ==
  \/ CallConvertMentions
  \/ CallConvertMentionsAgain

SpecMentions == InitMentions /\ [][NextMentions]_allVars

\* ------------------------------------------------------------ JiraRenderer

\* The bytes the renderer writes and tests: '\n', '*', ' '.
Newline == 10
Star == 42
Space == 32

\* "h" + strconv.Itoa(level) + ". ", for a level of one digit
HeadingMark(level) == << 104, 48 + level, 46, Space >>

\* "{code:language="
CodeOpen == << 123, 99, 111, 100, 101, 58, 108, 97, 110, 103, 117, 97, 103, 101, 61 >>

\* "}\n"
CodeOpenEnd == << 125, Newline >>

\* "{code}"
CodeClose == << 123, 99, 111, 100, 101, 125 >>

\* "java"
Java == << 106, 97, 118, 97 >>

\* "----\n"
Rule == << Hyphen, Hyphen, Hyphen, Hyphen, Newline >>

\* strings.Repeat of one byte
Repeat(c, n) == [i \in 1..n |-> c]

\* strings.HasSuffix(b, "\n")
HasSuffixNewline(b) == Len(b) > 0 /\ b[Len(b)] = Newline

\* unicode.IsSpace on the bytes below 0x80: '\t', '\n', '\v', '\f', '\r', ' '
IsSpace(c) == c \in 9..13 \/ c = Space

RECURSIVE TrimLeft(_)
TrimLeft(b) == IF Len(b) > 0 /\ IsSpace(b[1]) THEN TrimLeft(Tail(b)) ELSE b

RECURSIVE TrimRight(_)
TrimRight(b) ==
  IF Len(b) > 0 /\ IsSpace(b[Len(b)]) THEN TrimRight(SubSeq(b, 1, Len(b) - 1)) ELSE b

\* strings.TrimSpace
TrimSpace(b) == TrimRight(TrimLeft(b))

\* A node of the parsed tree: its type, HeadingData.Level, CodeBlockData.Info,
\* Literal and LinkData.Destination.
Node(type, level, info, literal, dest) ==
  [type |-> type, level |-> level, info |-> info, literal |-> literal, dest |-> dest]

DocumentNode == Node("Document", 0, << >>, << >>, << >>)
ParagraphNode == Node("Paragraph", 0, << >>, << >>, << >>)
ListNode == Node("List", 0, << >>, << >>, << >>)
ItemNode == Node("Item", 0, << >>, << >>, << >>)
HorizontalRuleNode == Node("HorizontalRule", 0, << >>, << >>, << >>)

\* The heading levels of the trees: the smallest and the largest of markdown.
Levels == { 1, 6 }

Headings == { Node("Heading", l, << >>, << >>, << >>) : l \in Levels }

\* The literals of the Text nodes: "a" and "@a".
Texts == { Node("Text", 0, << >>, t, << >>) : t \in { << 97 >>, << At, 97 >> } }

\* The code blocks: no declared language or "go", no content or "@a\n".
CodeBlocks ==
  { Node("CodeBlock", 0, info, lit, << >>) :
      info \in { << >>, << 103, 111 >> }, lit \in { << >>, << At, 97, Newline >> } }

\* The code spans: "x" and "@a".
Codes == { Node("Code", 0, << >>, lit, << >>) : lit \in { << 120 >>, << At, 97 >> } }

\* The links, with the destinations "u" and "@a", and the image with the
\* destination "@a".
Links == { Node("Link", 0, << >>, << >>, d) : d \in { << 117 >>, << At, 97 >> } }
Images == { Node("Image", 0, << >>, << >>, << At, 97 >>) }

\* The node types ast.Walk visits twice, entering and leaving.
Containers == { "Document", "Paragraph", "Heading", "List", "Item", "Link", "Image" }

Inlines == { "Text", "Code", "Link", "Image" }

Blocks == { "Paragraph", "Heading", "List", "CodeBlock", "HorizontalRule" }

\* The types of the children the parser gives a node of a type.
Children(type) ==
  CASE type = "Document" -> Blocks
    [] type = "Item" -> Blocks
    [] type = "List" -> { "Item" }
    [] type = "Paragraph" -> Inlines
    [] type = "Heading" -> Inlines
    [] type = "Link" -> { "Text" }
    [] type = "Image" -> { "Text" }
    [] OTHER -> { }

\* The parser gives every List an Item and every Paragraph a Text.
NonEmpty == { "List", "Paragraph" }

\* The nodes a subtree with this root has at least.
Needs(type) == IF type \in NonEmpty THEN 2 ELSE 1

\* The container the walk is in.
Top == open[Len(open)]

\* ast.Walk: the next visit is of node n, entering (a child of the container
\* the walk is in) or leaving (that container, its children being visited).
Walks(n, e) ==
  /\ renderPc = "walk"
  /\ IF e
       THEN /\ n.type \in Children(Top.type)
            /\ count + Needs(n.type) <= MaxNodes
       ELSE /\ n = Top
            /\ n.type # "Document"
            /\ ~(entering /\ node = n /\ n.type \in NonEmpty)

\* if entering && !r.inList && r.buf.Len() > 0 { w.WriteString("\n"); return }
\* if !entering { w.WriteString("\n") }
renderParagraph(e) ==
  IF e /\ ~inList /\ Len(rbuf) > 0 THEN << Newline >>
  ELSE IF ~e THEN << Newline >>
  ELSE << >>

\* if entering { if r.buf.Len() > 0 { "\n" }; "h"; Itoa(Level); ". "; return }
\* w.WriteString("\n")
renderHeading(n, e) ==
  IF e
    THEN (IF Len(rbuf) > 0 THEN << Newline >> ELSE << >>) \o HeadingMark(n.level)
    ELSE << Newline >>

\* w.WriteString(ConvertMentions(node.Literal))
renderText(n) == ConvertMentions(n.literal)

\* if entering { w.WriteString("!"); return }
\* w.WriteString("|"); w.Write(node.LinkData.Destination); w.WriteString("!")
renderImage(n, e) == IF e THEN << 33 >> ELSE << 124 >> \o n.dest \o << 33 >>

\* if entering { w.WriteString("["); return }
\* w.WriteString("|"); w.Write(node.LinkData.Destination); w.WriteString("]")
renderLink(n, e) ==
  IF e THEN << BracketOpen >> ELSE << 124 >> \o n.dest \o << BracketClose >>

\* Mutant of renderCode: the literal of a code span has its mentions rewritten.
renderCodeConverted(n) == << 123, 123 >> \o ConvertMentions(n.literal) \o << 125, 125 >>

\* w.WriteString("{{"); w.Write(node.Literal); w.WriteString("}}")
renderCode(n) == << 123, 123 >> \o n.literal \o << 125, 125 >>

\* Mutant of RendererBuf: the handlers are given the renderer's own buffer.
RendererBufShared(written) == rbuf \o written

\* r.buf after a handler has written to w: NewJiraRenderer allocated it, ToJira
\* passes its own buf as w, and no handler writes to r.buf.
RendererBuf(written) == rbuf

\* Mutant of InListAfter: leaving any List clears the flag.
InListAfterAnyLeave(e) == e

\* Mutant of ListDepthAfter: leaving a List keeps the depth.
ListDepthNeverLeft(e) == IF e THEN listDepth + 1 ELSE listDepth

\* renderList: r.listDepth++ when entering, r.listDepth-- when leaving
ListDepthAfter(e) == IF e THEN listDepth + 1 ELSE listDepth - 1

\* renderList: leaving the List that brings the depth to 0 writes "\n"
renderList(e) == IF ~e /\ ListDepthAfter(e) = 0 THEN << Newline >> ELSE << >>

\* renderList: r.inList = true when entering; false when the depth is 0 again
InListAfter(e) ==
  IF e THEN TRUE ELSE IF ListDepthAfter(e) = 0 THEN FALSE ELSE inList

\* if !entering { return }; indent := strings.Repeat("*", r.listDepth)
\* if r.buf.Len() > 0 && !strings.HasSuffix(r.buf.String(), "\n") { "\n" }
\* w.WriteString(indent + " ")
renderItem(e) ==
  IF ~e THEN << >>
  ELSE (IF Len(rbuf) > 0 /\ ~HasSuffixNewline(rbuf) THEN << Newline >> ELSE << >>)
         \o Repeat(Star, listDepth) \o << Space >>

\* Mutant of Language: the declared language is written as it is.
LanguageAsDeclared(info) == info

\* language := string(node.CodeBlockData.Info); if language == "" { "java" }
Language(info) == IF info = << >> THEN Java ELSE info

\* if r.buf.Len() > 0 { "\n" }; "{code:language="; language; "}\n";
\* w.Write(node.Literal); "{code}"
renderCodeBlock(n) ==
  (IF Len(rbuf) > 0 THEN << Newline >> ELSE << >>)
    \o CodeOpen \o Language(n.info) \o CodeOpenEnd \o n.literal \o CodeClose

\* w.WriteString("----\n")
renderHorizontalRule == Rule

\* One call of RenderNode(buf, n, e) by the walk: the handler's bytes are
\* appended to buf; r.buf is the buffer NewJiraRenderer made and is not buf.
Visit(n, e, written) ==
  /\ w' = w \o written
  /\ node' = n
  /\ entering' = e
  /\ open' = IF ~e THEN SubSeq(open, 1, Len(open) - 1)
             ELSE IF n.type \in Containers THEN Append(open, n)
             ELSE open
  /\ count' = IF e /\ n.type # "Document" THEN count + 1 ELSE count
  /\ rbuf' = RendererBuf(written)
  /\ UNCHANGED << vars, keyVars, mentionVars, loadVars, resolutionVars, jira >>

\* case bf.Document: return bf.GoToNext
VisitDocument ==
  \/ /\ renderPc = "parsed"
     /\ renderPc' = "walk"
     /\ Visit(DocumentNode, TRUE, << >>)
     /\ UNCHANGED << inList, listDepth, inCodeBlock >>
  \/ /\ renderPc = "walk"
     /\ Top = DocumentNode
     /\ renderPc' = "walked"
     /\ Visit(DocumentNode, FALSE, << >>)
     /\ UNCHANGED << inList, listDepth, inCodeBlock >>

VisitParagraph ==
  \E e \in BOOLEAN :
    /\ Walks(ParagraphNode, e)
    /\ Visit(ParagraphNode, e, renderParagraph(e))
    /\ UNCHANGED << renderPc, inList, listDepth, inCodeBlock >>

VisitHeading ==
  \E n \in Headings, e \in BOOLEAN :
    /\ Walks(n, e)
    /\ Visit(n, e, renderHeading(n, e))
    /\ UNCHANGED << renderPc, inList, listDepth, inCodeBlock >>

VisitText ==
  \E n \in Texts :
    /\ Walks(n, TRUE)
    /\ Visit(n, TRUE, renderText(n))
    /\ UNCHANGED << renderPc, inList, listDepth, inCodeBlock >>

VisitCode ==
  \E n \in Codes :
    /\ Walks(n, TRUE)
    /\ Visit(n, TRUE, renderCode(n))
    /\ UNCHANGED << renderPc, inList, listDepth, inCodeBlock >>

VisitLink ==
  \E n \in Links, e \in BOOLEAN :
    /\ Walks(n, e)
    /\ Visit(n, e, renderLink(n, e))
    /\ UNCHANGED << renderPc, inList, listDepth, inCodeBlock >>

VisitImage ==
  \E n \in Images, e \in BOOLEAN :
    /\ Walks(n, e)
    /\ Visit(n, e, renderImage(n, e))
    /\ UNCHANGED << renderPc, inList, listDepth, inCodeBlock >>

VisitList ==
  \E e \in BOOLEAN :
    /\ Walks(ListNode, e)
    /\ Visit(ListNode, e, renderList(e))
    /\ listDepth' = ListDepthAfter(e)
    /\ inList' = InListAfter(e)
    /\ UNCHANGED << renderPc, inCodeBlock >>

VisitItem ==
  \E e \in BOOLEAN :
    /\ Walks(ItemNode, e)
    /\ Visit(ItemNode, e, renderItem(e))
    /\ UNCHANGED << renderPc, inList, listDepth, inCodeBlock >>

\* r.inCodeBlock is true while the block is written and false at the return.
VisitCodeBlock ==
  \E n \in CodeBlocks :
    /\ Walks(n, TRUE)
    /\ Visit(n, TRUE, renderCodeBlock(n))
    /\ inCodeBlock' = FALSE
    /\ UNCHANGED << renderPc, inList, listDepth >>

VisitHorizontalRule ==
  /\ Walks(HorizontalRuleNode, TRUE)
  /\ Visit(HorizontalRuleNode, TRUE, renderHorizontalRule)
  /\ UNCHANGED << renderPc, inList, listDepth, inCodeBlock >>

\* return strings.TrimSpace(bytesconv.BytesToStr(buf.Bytes()))
ToJiraReturn ==
  /\ renderPc = "walked"
  /\ jira' = TrimSpace(w)
  /\ renderPc' = "done"
  /\ UNCHANGED << vars, keyVars, mentionVars, loadVars, resolutionVars, open, node, entering, count, w, rbuf, inList,
                  listDepth, inCodeBlock >>

\* ToJira after md.Parse, bytes.NewBuffer and NewJiraRenderer.
InitRender ==
  /\ RunIdle
  /\ KeysIdle
  /\ MentionsIdle
  /\ ConfigIdle
  /\ ResolutionIdle
  /\ renderPc = "parsed"
  /\ open = << >>
  /\ node = NoNode
  /\ entering = FALSE
  /\ count = 0
  /\ w = << >>
  /\ rbuf = << >>
  /\ inList = FALSE
  /\ listDepth = 0
  /\ inCodeBlock = FALSE
  /\ jira = << >>

NextRender ==
  \/ VisitDocument
  \/ VisitParagraph
  \/ VisitHeading
  \/ VisitText
  \/ VisitCode
  \/ VisitLink
  \/ VisitImage
  \/ VisitList
  \/ VisitItem
  \/ VisitCodeBlock
  \/ VisitHorizontalRule
  \/ ToJiraReturn

SpecRender == InitRender /\ [][NextRender]_allVars

\* ------------------------------------- loadConfig and validateConfig alone

\* The environments with at most n variables set.
EnvsUpTo(n) == { e \in SUBSET EnvNames : Cardinality(e) <= n }

InitConfig ==
  /\ RunIdle
  /\ KeysIdle
  /\ MentionsIdle
  /\ RenderIdle
  /\ ResolutionIdle
  /\ env \in EnvsUpTo(MaxEnv)
  /\ loaded = EmptyConfig
  /\ configErr = Nil
  /\ loadPc = "call"

\* config := loadConfig(); err := validateConfig(config)
CallLoadConfig ==
  /\ loadPc = "call"
  /\ loaded' = loadConfig(env)
  /\ configErr' = validateConfig(loadConfig(env))
  /\ loadPc' = "done"
  /\ UNCHANGED << vars, keyVars, mentionVars, renderVars, resolutionVars, env >>

NextConfig == CallLoadConfig

SpecConfig == InitConfig /\ [][NextConfig]_allVars

\* --------------------------------------------------------- getResolutionID

\* Mutant of FirstEqualFold: the last matching resolution is taken.
LastEqualFold(list, name, i) ==
  LET matching == { j \in i..Len(list) : EqualFold(list[j].Name, name) }
  IN IF matching = {} THEN ""
     ELSE list[CHOOSE j \in matching : \A k \in matching : k <= j].ID

RECURSIVE FirstEqualFold(_, _, _)
\* for _, r := range resolutions {
\*   if strings.EqualFold(r.Name, resolution) { return r.ID, nil } }
\* return "", nil          (from the i-th resolution on)
FirstEqualFold(list, name, i) ==
  IF i > Len(list) THEN ""
  ELSE IF EqualFold(list[i].Name, name) THEN list[i].ID
  ELSE FirstEqualFold(list, name, i + 1)

\* getResolutionID: the id and the error returned
getResolutionID(resp, list, name) ==
  IF resp.err
    THEN [id |-> "", err |-> Error(ErrOf(resp), 0)]
  ELSE IF resp.status # StatusOK
    THEN [id |-> "", err |-> Error("error getting resolution: %s", resp.status)]
  ELSE [id |-> FirstEqualFold(list, name, 1), err |-> Nil]

\* The names of the resolutions the server lists.
ResolutionNames == { Done, DONE, Open, done }

RECURSIVE NameListsUpTo(_)
\* The lists of at most n names.
NameListsUpTo(n) ==
  IF n = 0 THEN { << >> }
  ELSE LET shorter == NameListsUpTo(n - 1)
       IN shorter \cup { Append(l, name) : l \in shorter, name \in ResolutionNames }

\* The server's list for a list of names: the i-th resolution has the id "i".
Resolutions(names) == [i \in 1..Len(names) |-> [ID |-> ToString(i), Name |-> names[i]]]

InitResolution ==
  /\ RunIdle
  /\ KeysIdle
  /\ MentionsIdle
  /\ RenderIdle
  /\ ConfigIdle
  /\ resolutions \in { Resolutions(names) : names \in NameListsUpTo(MaxResolutions) }
  /\ resolution \in { done, Open }
  /\ lookup \in Responses
  /\ resolutionPc = "call"
  /\ gotID = ""
  /\ gotErr = Nil

\* id, err := getResolutionID(ctx, jiraClient, resolution)
CallGetResolutionID ==
  /\ resolutionPc = "call"
  /\ LET r == getResolutionID(lookup, resolutions, resolution) IN
       /\ gotID' = r.id
       /\ gotErr' = r.err
  /\ resolutionPc' = "done"
  /\ UNCHANGED << vars, keyVars, mentionVars, renderVars, loadVars, resolutions,
                  resolution, lookup >>

NextResolution == CallGetResolutionID

SpecResolution == InitResolution /\ [][NextResolution]_allVars

\* ------------------------------------------------------------------- claims

MutationOps == {"processTransitions", "processAssignee", "addComments"}

\* The batch function o has produced its result and not yet handed it to run.
Returned(o) == op = o /\ mainPc = "ret"

KeysOf(seq) == {seq[i] : i \in 1..Len(seq)}

IssueKeysOf(iss) == {iss[i].Key : i \in 1..Len(iss)}

\* The issues for which a call of o was answered otherwise than with the
\* method's success status (a transport error or an unexpected status), and
\* those for which a call of o was answered with it.
RawFailed(o) == {c.key : c \in {d \in calls : d.op = Method(o) /\ ~d.ok}}
RawOK(o) == {c.key : c \in {d \in calls : d.op = Method(o) /\ d.ok}}

ErrorMsg(o) ==
  CASE o = "processIssues" -> "error getting issue"
    [] o = "processTransitions" -> "error moving issue"
    [] o = "processAssignee" -> "error updating assignee"
    [] o = "addComments" -> "error adding comment"

\* The issues the code has reported as failed in o.
Logged(o) == {k \in 1..MaxKeys : Log("error", ErrorMsg(o), k) \in logs}

\* The issue has a legal transition whose name equals the target name
\* case-insensitively.
HasMatch(key) ==
  \E j \in 1..Len(tracker[key]) : EqualFold(tracker[key][j].Name, config.toTransition)

\* C1: processTransitions, processAssignee and addComments, run over N issues
\* of which k fail (transport error or unexpected status), return nil when
\* k = 0 and otherwise an error whose message names exactly k errors.
C1_AggregateNamesFailures ==
  \A o \in MutationOps :
    Returned(o) =>
      LET k == Cardinality(RawFailed(o)) IN
        /\ k = 0 => ret = Nil
        /\ k > 0 => ret = Error(AggregateMsg(o), k)

\* C1 witness: processTransitions returns after one of two issues failed.
C1_Witness ==
  /\ Returned("processTransitions")
  /\ Len(issues) = 2
  /\ Cardinality(RawFailed("processTransitions")) = 1
  /\ ret.n = 1

\* C2 (as stated): over N >= 1 extracted keys of which k fetches fail,
\* processIssues returns a non-nil error if and only if k > 0.
C2_Original ==
  (Returned("processIssues") /\ Len(issueKeys) >= 1) =>
    (ret # Nil <=> Cardinality(RawFailed("processIssues")) > 0)

\* C2 (amended): processIssues does not aggregate fetch failures. Over N
\* extracted keys of which k fetches fail it returns the N - k fetched issues,
\* and its error is non-nil if and only if no key was extracted (N = 0).
C2_FetchErrorOnlyWithoutKeys ==
  Returned("processIssues") =>
    /\ ret # Nil <=> Len(issueKeys) = 0
    /\ Len(issues) = Len(issueKeys) - Cardinality(RawFailed("processIssues"))

\* C2 witness: processIssues returns nil although one of two fetches failed.
C2_Witness ==
  /\ Returned("processIssues")
  /\ Len(issueKeys) = 2
  /\ Cardinality(RawFailed("processIssues")) = 1
  /\ Len(issues) = 1
  /\ ret = Nil

\* C3: processIssues returns a nil error whenever at least one key was
\* extracted, even when some or all fetches fail or the context expires;
\* failed keys are logged and left out of the returned list.
C3_FetchFailuresOnlyLogged ==
  (Returned("processIssues") /\ Len(issueKeys) >= 1) =>
    /\ ret = Nil
    /\ RawFailed("processIssues") = Logged("processIssues")
    /\ IssueKeysOf(issues) \cap RawFailed("processIssues") = {}
    /\ IssueKeysOf(issues) \subseteq KeysOf(issueKeys)

\* C3 witness: the context expired, every fetch failed, and the error is nil.
C3_Witness ==
  /\ Returned("processIssues")
  /\ ctxDone
  /\ Len(issueKeys) = 2
  /\ RawFailed("processIssues") = KeysOf(issueKeys)
  /\ issues = <<>>
  /\ ret = Nil

\* The issue of item i of the running batch function.
ItemKey(i) == IF op = "processIssues" THEN issueKeys[i] ELSE issues[i].Key

\* C4: a batch function produces its result only after every one of its N
\* goroutines has finished, and every item's remote call has been issued,
\* whatever happened to the other items (in processTransitions: every item
\* that has a matching transition).
C4_BarrierAndIndependence ==
  \A o \in Ops :
    Returned(o) =>
      /\ Len(task) = Len(Items)
      /\ wg = 0
      /\ \A i \in 1..Len(task) :
           /\ task[i].pc = "done"
           /\ (o # "processTransitions" \/ HasMatch(ItemKey(i))) =>
                \E c \in calls : c.op = Method(o) /\ c.key = ItemKey(i)

\* C4 witness: processAssignee returns after one issue failed and another
\* was updated.
C4_Witness ==
  /\ Returned("processAssignee")
  /\ RawFailed("processAssignee") # {}
  /\ RawOK("processAssignee") # {}

\* The number of entries of the issue list that carry key k.
Occurrences(iss, k) == Cardinality({i \in 1..Len(iss) : iss[i].Key = k})

\* The keys of the fetched issues in the order in which their goroutines sent
\* them: those already collected, then those still in the channel.
Completed ==
  [i \in 1..Len(issues) |-> issues[i].Key] \o
  LET sent == SelectSeq(results, LAMBDA r : r.err = "")
  IN [i \in 1..Len(sent) |-> sent[i].key]

IsPrefix(s, t) == Len(s) <= Len(t) /\ SubSeq(t, 1, Len(s)) = s

\* C5: for every interleaving, the list processIssues returns holds each key
\* whose fetch succeeded exactly once and no key whose fetch failed; its
\* order is the order in which the fetches completed (every fetched issue
\* comes after all those fetched before it), which need not be the order of
\* the keys: see the witness.
C5_FetchedExactlyOnce ==
  /\ [](Returned("processIssues") =>
         /\ \A k \in KeysOf(issueKeys) :
              Occurrences(issues, k) = IF k \in RawOK("processIssues") THEN 1 ELSE 0
         /\ Len(issues) = Cardinality(RawOK("processIssues")))
  /\ [][(op = "processIssues" /\ op' = "processIssues") =>
          IsPrefix(Completed, Completed')]_vars

\* C5 witness: the returned list starts with the second key of the reference.
C5_Witness ==
  /\ Returned("processIssues")
  /\ Len(issues) = 2
  /\ issues[1].Key = issueKeys[2]
  /\ issues[2].Key = issueKeys[1]

\* C6 (as stated): when several legal transitions of an issue match the
\* target name, only the first is applied: at most one transition call is
\* issued per issue.
C6_AtMostOneTransitionCall ==
  \A k \in 1..MaxKeys :
    Cardinality({c \in calls : c.op = "DoTransition" /\ c.key = k}) <= 1

\* C7: in processTransitions an issue none of whose legal transitions matches
\* the target name case-insensitively causes no remote call and no error (a
\* warning only); if this holds for every issue the call returns nil.
C7_NoMatchIsSkipped ==
  /\ \A c \in calls : c.op = "DoTransition" => HasMatch(c.key)
  /\ Returned("processTransitions") =>
       /\ \A k \in IssueKeysOf(issues) :
            ~HasMatch(k) =>
              /\ k \notin Logged("processTransitions")
              /\ Log("warn", "transition not found for issue", k) \in logs
       /\ (\A k \in IssueKeysOf(issues) : ~HasMatch(k)) => ret = Nil

\* C7 witness: processTransitions returns nil for two issues without a match.
C7_Witness ==
  /\ Returned("processTransitions")
  /\ Len(issues) = 2
  /\ \A k \in IssueKeysOf(issues) : ~HasMatch(k)
  /\ ret = Nil
  /\ ~ctxDone

\* The items the code has treated as failed in the batch function o.
CodeFailed(o) ==
  IF o = "processIssues"
    THEN {r.key : r \in {x \in KeysOf(results) : x.err # ""}} \cup Logged(o)
    ELSE Logged(o)

\* C8: an item succeeds only on its operation's single success status (200
\* for fetch, 204 for transition and set-assignee, 201 for add-comment); any
\* other status, also another 2xx, or a transport error makes that item fail,
\* and only that item.
C8_OnlyTheSuccessStatus ==
  /\ \A o \in Ops : op = o => CodeFailed(o) = RawFailed(o)
  /\ Returned("processIssues") =>
       IssueKeysOf(issues) = KeysOf(issueKeys) \ RawFailed("processIssues")

\* C8 witness: set-assignee was answered 200 for one issue, which failed,
\* and 204 for another, which did not.
C8_Witness ==
  /\ op = "processAssignee"
  /\ \E i, j \in 1..Len(task) :
       /\ task[i].pc = "exit"
       /\ task[i].resp = [err |-> FALSE, status |-> StatusOK]
       /\ task[i].iss.Key \in Logged("processAssignee")
       /\ task[j].pc = "exit"
       /\ task[j].resp = [err |-> FALSE, status |-> StatusNoContent]
       /\ task[j].iss.Key \notin Logged("processAssignee")

MutationMethods == {"DoTransition", "UpdateAssignee", "AddComment"}

\* C9: in run, every transition, assignee or comment call targets an issue
\* the fetch phase returned; none is issued for a key whose fetch failed.
C9_MutationsTargetFetchedIssues ==
  \A c \in calls :
    c.op \in MutationMethods =>
      /\ c.key \in RawOK("processIssues")
      /\ c.key \notin RawFailed("processIssues")
      /\ c.key \in IssueKeysOf(issues)

\* C9 witness: a mutation call was issued in a run in which a fetch failed.
C9_Witness ==
  /\ RawFailed("processIssues") # {}
  /\ \E c \in calls : c.op \in MutationMethods

\* The methods of the phases that follow o in run.
LaterMethods(o) ==
  CASE o = "processTransitions" -> {"UpdateAssignee", "AddComment"}
    [] o = "processAssignee" -> {"AddComment"}
    [] o = "addComments" -> {}

\* C10: when a mutation phase of run ends with failed items, run returns an
\* error naming that phase and issues no call of any later phase; the calls
\* of the failing phase stay as they were issued: run has ended, and no
\* goroutine is left that could issue a call to undo them.
C10_FailingPhaseEndsRun ==
  \A o \in MutationOps :
    RawFailed(o) # {} =>
      /\ \A c \in calls : c.op \notin LaterMethods(o)
      /\ op # o =>
           /\ runPc = "done"
           /\ op = "none"
           /\ task = << >>
           /\ runErr = Wrap(PhaseError(o), Error(AggregateMsg(o), Cardinality(RawFailed(o))))

\* C10 witness: run ended on a transition error after one transition had
\* been applied, with an assignee and a comment configured.
C10_Witness ==
  /\ runPc = "done"
  /\ runErr.phase = "error processing transitions"
  /\ config.assignee
  /\ config.comment
  /\ RawOK("processTransitions") # {}

\* The client methods of the four batch functions.
BatchMethods == {"GetIssue"} \cup MutationMethods

\* C11: once the context of run has expired, every remote call attempted
\* afterwards fails, as a failure of its item when a batch function made it,
\* and is not carried out by the tracker; the calls the tracker carried out
\* before stay, the issues already collected stay in the list, and the list
\* processIssues returns holds every issue fetched before the expiry.
C11_ExpiredContextFailsCalls ==
  /\ [][ctxDone =>
          /\ \A c \in calls' \ calls :
               /\ ~c.ok
               /\ c.op \in BatchMethods => c.key \in CodeFailed(op)'
          /\ {c \in calls : c.ok} \subseteq calls'
          /\ (op = "processIssues" /\ op' = op) => IsPrefix(issues, issues')]_vars
  /\ []((ctxDone /\ Returned("processIssues")) =>
          IssueKeysOf(issues) = RawOK("processIssues"))

\* C11 witness: the deadline passed after the first issue had been fetched;
\* the fetch of the second failed on it, and processIssues returns the first.
C11_Witness ==
  /\ ctxDone
  /\ op = "processIssues"
  /\ Len(task) = 2
  /\ task[2].resp = DeadlineExceeded
  /\ 1 \in RawOK("processIssues")
  /\ 2 \in RawFailed("processIssues")
  /\ \E i \in 1..Len(results) : results[i].key = 1 /\ results[i].err = ""

\* C12: called with an empty issue list, processTransitions, processAssignee
\* and addComments start no goroutine, issue no remote call, log nothing and
\* return nil.
C12_EmptyListNoCall ==
  Len(issues) = 0 =>
    /\ task = << >>
    /\ calls = {}
    /\ logs = {}
    /\ \A o \in MutationOps : Returned(o) => ret = Nil

\* C12 witness: addComments has returned nil for the empty list.
C12_Witness ==
  /\ Returned("addComments")
  /\ issues = << >>
  /\ ret = Nil
  /\ calls = {}

\* The matches of the pattern in use, in the order of their places in ref.
Matches13 == FindAllString(PatternFor(issuePattern), ref)

\* The place in the sequence of matches of the first one whose text is k.
FirstMatch(matches, k) == Min({ i \in 1..Len(matches) : matches[i] = k })

\* C13: for every reference and every pattern, getIssueKeys returns the
\* distinct matched substrings, each once, in the order of their first
\* occurrence in the reference.
C13_DistinctInFirstSeenOrder ==
  keysPc = "done" =>
    LET matches == Matches13 IN
    /\ KeysOf(gotKeys) = KeysOf(matches)
    /\ \A i, j \in 1..Len(gotKeys) : i # j => gotKeys[i] # gotKeys[j]
    /\ \A i, j \in 1..Len(gotKeys) :
         i < j => FirstMatch(matches, gotKeys[i]) < FirstMatch(matches, gotKeys[j])

\* C13 witness: a key matched twice, with another key between the two, is
\* returned once and first.
C13_Witness ==
  /\ keysPc = "done"
  /\ Len(Matches13) = 3
  /\ Matches13[1] = Matches13[3]
  /\ Matches13[1] # Matches13[2]
  /\ gotKeys = << Matches13[1], Matches13[2] >>

\* k is 1 to 10 upper-case letters, a hyphen, a digit other than 0, digits.
IsDefaultKey(k) ==
  \E n \in 1..10 :
    /\ Len(k) >= n + 2
    /\ \A j \in 1..n : k[j] \in Upper
    /\ k[n + 1] = "-"
    /\ k[n + 2] \in NonZero
    /\ \A j \in (n + 3)..Len(k) : k[j] \in Digit

\* r is a candidate whose number has a leading zero: 1 to 10 upper-case
\* letters, a hyphen, 0, digits.
IsZeroCandidate(r) ==
  \E n \in 1..10 :
    /\ Len(r) >= n + 2
    /\ \A j \in 1..n : r[j] \in Upper
    /\ r[n + 1] = "-"
    /\ r[n + 2] = "0"
    /\ \A j \in (n + 3)..Len(r) : r[j] \in Digit

\* C14: with the default pattern every key getIssueKeys returns is 1 to 10
\* upper-case letters, a hyphen and a run of digits that does not start with
\* 0, and a candidate whose number has a leading zero yields no key at all.
C14_DefaultKeyShape ==
  (keysPc = "done" /\ issuePattern = EmptyPattern) =>
    /\ \A i \in 1..Len(gotKeys) : IsDefaultKey(gotKeys[i])
    /\ IsZeroCandidate(ref) => gotKeys = << >>

\* C14 witness: a candidate with the number 07 has yielded no key.
C14_Witness ==
  /\ keysPc = "done"
  /\ issuePattern = EmptyPattern
  /\ IsZeroCandidate(ref)
  /\ ref[Len(ref)] \in NonZero
  /\ gotKeys = << >>

\* k is ABC, a hyphen and a run of digits.
IsABCKey(k) ==
  /\ Len(k) >= 5
  /\ SubSeq(k, 1, 4) = << "A", "B", "C", "-" >>
  /\ \A j \in 5..Len(k) : k[j] \in Digit

\* C15: a non-empty custom pattern replaces the default one (what only the
\* default pattern matches is not returned), and for a pattern with a
\* capture group the text of the whole match is returned, not the group's:
\* where the group is put makes no difference.
C15_CustomPatternReplacesDefault ==
  (keysPc = "done" /\ issuePattern # EmptyPattern) =>
    /\ \A i \in 1..Len(gotKeys) : IsABCKey(gotKeys[i])
    /\ gotKeys = getIssueKeys(ref, PatternABC)
    /\ IsABCKey(ref) => gotKeys = << ref >>

\* C15 witness: with the pattern whose group is the number alone, the
\* reference A-7ABC-12 yields ABC-12 and not A-7, which the default matches.
C15_Witness ==
  /\ keysPc = "done"
  /\ issuePattern = PatternABCNumber
  /\ ref = << "A", "-", "7", "A", "B", "C", "-", "1", "2" >>
  /\ gotKeys = << << "A", "B", "C", "-", "1", "2" >> >>
  /\ getIssueKeys(ref, EmptyPattern) = << << "A", "-", "7" >>, gotKeys[1] >>

\* The mention characters as the specification lists them: ASCII letters,
\* ASCII digits, '-' and '_'.
IsAsciiMentionChar(c) ==
  c \in 65..90 \/ c \in 97..122 \/ c \in 48..57 \/ c = Hyphen \/ c = Underscore

\* "[~" x "]"
Mention(x) == << BracketOpen, Tilde >> \o x \o << BracketClose >>

\* The text is "@x@y", x being its bytes 2..n, with x and y non-empty runs of
\* ASCII mention characters.
IsTwoMentions(t, n) ==
  /\ n >= 2
  /\ Len(t) >= n + 2
  /\ t[1] = At
  /\ t[n + 1] = At
  /\ \A i \in 2..n : IsAsciiMentionChar(t[i])
  /\ \A i \in (n + 2)..Len(t) : IsAsciiMentionChar(t[i])

\* C16 (as stated): a mention immediately followed by another '@' is split
\* into two mentions: "@x@y" becomes "[~x][~y]".
C16_Original ==
  mentionPc # "call" =>
    \A n \in 1..Len(text) :
      IsTwoMentions(text, n) =>
        firstPass = Mention(SubSeq(text, 2, n)) \o Mention(SubSeq(text, n + 2, Len(text)))

\* C16 (amended): a mention immediately followed by another '@' is not split
\* into two mentions: the '@' after the mention is copied literally and what
\* follows it is not rewritten, so "@x@y" becomes "[~x]@y".
C16_SecondAtIsCopied ==
  mentionPc # "call" =>
    \A n \in 1..Len(text) :
      IsTwoMentions(text, n) =>
        firstPass = Mention(SubSeq(text, 2, n)) \o << At >> \o SubSeq(text, n + 2, Len(text))

\* C16 witness: "@a@1" has become "[~a]@1".
C16_Witness ==
  /\ mentionPc = "once"
  /\ text = << At, 97, At, 49 >>
  /\ firstPass = << BracketOpen, Tilde, 97, BracketClose, At, 49 >>

\* C17: the byte immediately after a rewritten mention is copied to the
\* output literally and never starts a mention itself: a text that is a
\* mention "@x", a byte c that ends the run, and a rest r becomes "[~x]", c,
\* and the conversion of r on its own.
C17_ByteAfterMentionIsLiteral ==
  mentionPc # "call" =>
    \A n \in 2..(Len(text) - 1) :
      ( /\ text[1] = At
        /\ \A i \in 2..n : isValidMentionChar(text[i])
        /\ ~isValidMentionChar(text[n + 1]) ) =>
        firstPass = Mention(SubSeq(text, 2, n)) \o << text[n + 1] >>
                      \o ConvertMentions(SubSeq(text, n + 2, Len(text)))

\* C17 witness: "@a!@a" has become "[~a]![~a]".
C17_Witness ==
  /\ mentionPc = "once"
  /\ text = << At, 97, 33, At, 97 >>
  /\ firstPass = << BracketOpen, Tilde, 97, BracketClose, 33,
                    BracketOpen, Tilde, 97, BracketClose >>

\* C18 (as stated): ConvertMentions is idempotent: converting what it
\* returned returns the same text.
C18_Idempotent == mentionPc = "twice" => converted = firstPass

\* Byte k of the output lies between "[~" and the "]" that closes it.
InsideMention(out, k) ==
  \E a \in 1..(k - 1) : out[a] = BracketOpen /\ \A m \in a..k : out[m] # BracketClose

\* C19 (as stated): mention characters are exactly the ASCII letters, ASCII
\* digits, '-' and '_': an '@' followed by any other byte, such as a byte
\* >= 0x80 of a UTF-8 encoded letter, is copied literally and starts no
\* mention, and no mention run includes such a byte.
C19_AsciiMentionCharsOnly ==
  mentionPc # "call" =>
    /\ ( /\ Len(text) >= 2
         /\ text[1] = At
         /\ ~IsAsciiMentionChar(text[2]) ) =>
         firstPass = << At >> \o ConvertMentions(Tail(text))
    /\ \A k \in 1..Len(firstPass) :
         InsideMention(firstPass, k) =>
           \/ IsAsciiMentionChar(firstPass[k])
           \/ firstPass[k] \in { BracketOpen, Tilde }

RECURSIVE Rewritten(_, _, _)
\* The '@' at position i of t is rewritten. As stated: it is immediately
\* followed by a mention character. As amended: and, besides, it is not the
\* byte immediately after the run of a rewritten mention.
Rewritten(t, i, stated) ==
  /\ t[i] = At
  /\ i < Len(t)
  /\ isValidMentionChar(t[i + 1])
  /\ stated \/ ~\E j \in 1..(i - 2) :
                  /\ Rewritten(t, j, stated)
                  /\ \A m \in (j + 1)..(i - 1) : isValidMentionChar(t[m])

\* Byte i of t is the last of the maximal run of a rewritten mention.
ClosesMention(t, i, stated) ==
  /\ isValidMentionChar(t[i])
  /\ i = Len(t) \/ ~isValidMentionChar(t[i + 1])
  /\ \E j \in 1..(i - 1) :
       /\ Rewritten(t, j, stated)
       /\ \A m \in (j + 1)..i : isValidMentionChar(t[m])

RECURSIVE Rewriting(_, _, _)
\* What the bytes of t from position i on become: "[~" for a rewritten '@',
\* the byte itself for every other byte, and "]" after the last byte of a
\* mention's run.
Rewriting(t, i, stated) ==
  IF i > Len(t) THEN << >>
  ELSE ( IF Rewritten(t, i, stated) THEN << BracketOpen, Tilde >>
         ELSE IF ClosesMention(t, i, stated) THEN << t[i], BracketClose >>
         ELSE << t[i] >> ) \o Rewriting(t, i + 1, stated)

\* C20 (as stated): a text without '@' is returned unchanged; otherwise each
\* '@' immediately followed by at least one mention character becomes "[~",
\* the maximal run of mention characters and "]", and a bare '@' and every
\* other byte are copied unchanged and in order.
C20_Original ==
  mentionPc # "call" =>
    /\ ~ContainsAt(text) => firstPass = text
    /\ firstPass = Rewriting(text, 1, TRUE)

\* C20 (amended): a text without '@' is returned unchanged; otherwise each
\* '@' that is immediately followed by at least one mention character and is
\* not itself the byte immediately after a rewritten mention becomes "[~",
\* the maximal run of mention characters and "]"; every other '@' and every
\* other byte are copied unchanged and in order.
C20_RewritesMentionsNotAfterMention ==
  mentionPc # "call" =>
    /\ ~ContainsAt(text) => firstPass = text
    /\ firstPass = Rewriting(text, 1, FALSE)

\* C20 witness: in "!@a-@" the mention is rewritten and the bare '@' at the
\* end is copied: "![~a-]@".
C20_Witness ==
  /\ mentionPc = "once"
  /\ text = << 33, At, 97, Hyphen, At >>
  /\ firstPass = << 33, BracketOpen, Tilde, 97, Hyphen, BracketClose, At >>

\* ------------------------------------------------------ claims: JiraRenderer

\* The bytes the step appends to the output buffer.
Added == SubSeq(w', Len(w) + 1, Len(w'))

\* The step is the visit that enters a node of this type.
Enters(type) == count' = count + 1 /\ node'.type = type

\* The step is the visit that leaves a node of this type.
Leaves(type) == Len(open') < Len(open) /\ node'.type = type

\* The number of List nodes among the containers in s.
ListsOpen(s) == Cardinality({ i \in 1..Len(s) : s[i].type = "List" })

\* b ends with the bytes of e.
EndsWith(b, e) == Len(b) >= Len(e) /\ SubSeq(b, Len(b) - Len(e) + 1, Len(b)) = e

\* C21: the markers written for a list item are exactly d '*' followed by one
\* space, where d is the number of List nodes open when the item is entered;
\* nothing but a newline is written before them by the item's visit.
C21_MarkersCountOpenLists ==
  [][ Enters("Item") =>
        LET d == ListsOpen(open)
            markers == Repeat(Star, d) \o << Space >>
        IN /\ d >= 1
           /\ Added \in { markers, << Newline >> \o markers } ]_allVars

\* An item of a list nested once has been entered and "** " was written.
C21_Witness ==
  /\ node.type = "Item"
  /\ entering
  /\ ListsOpen(open) = 2
  /\ EndsWith(w, << Star, Star, Space >>)
  /\ ~EndsWith(w, << Star, Star, Star, Space >>)

\* The text of a code block: the opening tag with the language, a newline,
\* the literal and the closing tag.
CodeText(language, literal) ==
  CodeOpen \o language \o << 125, Newline >> \o literal \o CodeClose

\* C22: a CodeBlock is visited once, entering, and that visit writes
\* "{code:language=<lang>}\n" + the literal + "{code}" and nothing after it,
\* <lang> being the declared language, or "java" when none is declared;
\* nothing but a newline is written before it by the visit.
C22_CodeBlockText ==
  [][ /\ (node'.type = "CodeBlock" => entering')
      /\ Enters("CodeBlock") =>
           LET n == node'
               code == CodeText(IF n.info = << >> THEN Java ELSE n.info, n.literal)
           IN Added \in { code, << Newline >> \o code } ]_allVars

\* A code block without a declared language and with content was written.
C22_Witness ==
  /\ node.type = "CodeBlock"
  /\ node.info = << >>
  /\ node.literal # << >>
  /\ EndsWith(w, CodeText(Java, node.literal))

\* C23: entering a Heading writes a newline first whenever the render has
\* already written some output, then "h<level>. "; leaving it writes a
\* newline.
C23_HeadingSeparator ==
  [][ /\ Enters("Heading") =>
           Added = (IF Len(w) > 0 THEN << Newline >> ELSE << >>)
                     \o HeadingMark(node'.level)
      /\ Leaves("Heading") => Added = << Newline >> ]_allVars

\* C24: entering a Paragraph writes a newline exactly when the renderer is
\* not inside a list and the render has already written some output; leaving
\* a Paragraph writes a newline.
C24_ParagraphSeparator ==
  [][ /\ Enters("Paragraph") =>
           Added = (IF ~inList /\ Len(w) > 0 THEN << Newline >> ELSE << >>)
      /\ Leaves("Paragraph") => Added = << Newline >> ]_allVars

\* C25: entering an Item writes a newline before the markers exactly when the
\* output written so far is not empty and does not end with a newline, so the
\* markers start at the beginning of a line.
C25_ItemStartsLine ==
  [][ Enters("Item") =>
        LET markers == Repeat(Star, listDepth) \o << Space >>
        IN /\ Added = (IF Len(w) > 0 /\ ~HasSuffixNewline(w)
                         THEN << Newline >> ELSE << >>) \o markers
           /\ LET before == SubSeq(w', 1, Len(w') - Len(markers))
              IN before = << >> \/ HasSuffixNewline(before) ]_allVars

\* ---------------------------------------------------------- claims: run, config

\* The configuration is invalid in one of the five ways: no base URL, no
\* reference, no credential at all, a username without a password, a password
\* without a username.
Invalid(c) ==
  \/ c.baseURL = ""
  \/ c.ref = ""
  \/ c.username = "" /\ c.password = "" /\ c.token = ""
  \/ c.username # "" /\ c.password = ""
  \/ c.password # "" /\ c.username = ""

\* C26: once run has loaded a configuration that is invalid in one of the
\* five ways, it has returned an "invalid configuration" error and no remote
\* call has been issued, nor any batch function called.
C26_InvalidConfigurationEndsRun ==
  (runPc # "loadConfig" /\ Invalid(loaded)) =>
    /\ runPc = "done"
    /\ runErr # Nil
    /\ runErr.phase = "invalid configuration"
    /\ runErr.msg = configErr.msg
    /\ calls = {}
    /\ logs = {}
    /\ op = "none"

\* C26 witness: run has returned for a username without a password.
C26_Witness ==
  /\ runPc = "done"
  /\ loaded.baseURL # ""
  /\ loaded.ref # ""
  /\ loaded.username # ""
  /\ loaded.password = ""
  /\ runErr = Wrap("invalid configuration",
                   Error("password is required when username is provided", 0))
  /\ calls = {}

\* C27: when no issue key was extracted from the reference, processIssues
\* returns the error "no issue keys found in ref" without starting a task
\* and without issuing a fetch call.
C27_NoKeysNoFetch ==
  (op = "processIssues" /\ Len(issueKeys) = 0) =>
    /\ mainPc = "ret"
    /\ ret = Error("no issue keys found in ref", 0)
    /\ task = << >>
    /\ \A c \in calls : c.op # "GetIssue"

\* C27 witness: processIssues has returned that error to run.
C27_Witness ==
  /\ Returned("processIssues")
  /\ issueKeys = << >>
  /\ ret.msg = "no issue keys found in ref"

\* run has called processIssues and processIssues has returned to it.
AfterProcessIssues ==
  /\ op = "none"
  /\ runPc \notin { "loadConfig", "getSelf", "getUser", "processIssues" }

\* The remote calls run issues before and in processIssues.
EarlyCalls == { "getSelf", "getUser", "GetIssue" }

\* C28: if keys were extracted and every fetch failed, then after
\* processIssues run has returned the error "no issues found" and has issued
\* no call of a later step: no resolution lookup, transition, assignee update
\* or comment.
C28_NoIssuesEndsRun ==
  ( /\ Len(issueKeys) > 0
    /\ RawFailed("processIssues") = KeysOf(issueKeys)
    /\ AfterProcessIssues ) =>
    /\ runPc = "done"
    /\ runErr = Error("no issues found", 0)
    /\ \A c \in calls : c.op \in EarlyCalls

\* C28 witness: run has returned "no issues found" after two failed fetches,
\* with a transition, a resolution, an assignee and a comment configured.
C28_Witness ==
  /\ runPc = "done"
  /\ runErr = Error("no issues found", 0)
  /\ Len(issueKeys) = 2
  /\ RawFailed("processIssues") = KeysOf(issueKeys)
  /\ config.toTransition # Empty
  /\ config.resolution
  /\ config.assignee
  /\ config.comment

\* C30 (as stated): with only JIRA_BASE_URL, JIRA_TOKEN and REF set,
\* loadConfig takes the base URL and the token from these variables and
\* validateConfig accepts the configuration.
C30_DocumentedVariablesAreRead ==
  (loadPc = "done" /\ env = { "JIRA_BASE_URL", "JIRA_TOKEN", "REF" }) =>
    /\ loaded.baseURL = ValueOf("JIRA_BASE_URL")
    /\ loaded.token = ValueOf("JIRA_TOKEN")
    /\ configErr = Nil

\* The positions of the listed resolutions whose name equals the name asked
\* for when the case of the letters is ignored.
Matching ==
  { i \in 1..Len(resolutions) : EqualFold(resolutions[i].Name, resolution) }

\* C29: getResolutionID returns an error when the lookup call fails or its
\* status is not 200; otherwise it returns a nil error and the id of the
\* first listed resolution whose name equals the requested name
\* case-insensitively, or the empty string when there is none.
C29_FirstMatchingResolution ==
  resolutionPc = "done" =>
    IF lookup.err \/ lookup.status # StatusOK
      THEN gotErr # Nil /\ gotID = ""
      ELSE /\ gotErr = Nil
           /\ Matching = {} => gotID = ""
           /\ Matching # {} =>
                gotID = resolutions[CHOOSE i \in Matching : \A j \in Matching : i <= j].ID

\* C29 witness: "done" is asked for, the server lists "Open", "DONE", "Done",
\* and the id of "DONE" is returned.
C29_Witness ==
  /\ resolutionPc = "done"
  /\ resolution = done
  /\ Len(resolutions) = 3
  /\ resolutions[1].Name = Open
  /\ resolutions[2].Name = DONE
  /\ resolutions[3].Name = Done
  /\ gotID = "2"
  /\ gotErr = Nil

\* ------------------------------------------- claims: renderer state, frame

\* C31: the renderer's own buffer is never written during a render: it is
\* empty in every state, whatever has been written to the output, so every
\* "output is non-empty" guard of the handlers reads an empty buffer.
C31_RendererBufferStaysEmpty == Len(rbuf) = 0

\* C31 witness: a heading is entered after other output and r.buf is empty.
C31_Witness ==
  /\ node.type = "Heading"
  /\ entering
  /\ Len(w) > Len(HeadingMark(node.level))
  /\ rbuf = << >>

\* C36: during the walk listDepth is the number of open List nodes and is
\* never negative, inList is true exactly when listDepth > 0, leaving a
\* nested list writes nothing and leaving the outermost list writes one
\* newline, and after the walk listDepth is 0 and inList is false.
C36_ListDepthTracksOpenLists ==
  /\ [](/\ listDepth >= 0
        /\ listDepth = ListsOpen(open)
        /\ inList <=> listDepth > 0)
  /\ [](renderPc \in { "walked", "done" } => listDepth = 0 /\ ~inList)
  /\ [][ Leaves("List") =>
           Added = (IF ListsOpen(open') = 0 THEN << Newline >> ELSE << >>) ]_allVars

\* C36 witness: a nested list has been left, inside an outer list.
C36_Witness ==
  /\ node.type = "List"
  /\ ~entering
  /\ listDepth = 1
  /\ inList
  /\ ListsOpen(open) = 1

\* C37: the visit of a Text node writes its literal with the mentions
\* rewritten; the visits of a code span and of a code block write the literal
\* byte for byte, and leaving a link or an image writes the destination byte
\* for byte, also when they contain "@a".
C37_OnlyTextIsRewritten ==
  [][ /\ Enters("Text") => Added = ConvertMentions(node'.literal)
      /\ Enters("Code") => Added = << 123, 123 >> \o node'.literal \o << 125, 125 >>
      /\ Enters("CodeBlock") => EndsWith(Added, node'.literal \o CodeClose)
      /\ Leaves("Link") => Added = << 124 >> \o node'.dest \o << BracketClose >>
      /\ Leaves("Image") => Added = << 124 >> \o node'.dest \o << 33 >> ]_allVars

\* C37 witness: the code span "@a" was written as "{{@a}}".
C37_Witness ==
  /\ node.type = "Code"
  /\ node.literal = << At, 97 >>
  /\ EndsWith(w, << 123, 123, At, 97, 125, 125 >>)

\* ------------------------------------------------- claims: invalid pattern

\* C38: called with a non-empty custom pattern that does not compile,
\* getIssueKeys panics: it returns no keys and no error, and the default
\* pattern is not used in its place, whatever the reference holds; with every
\* other pattern it returns.
C38_InvalidPatternPanics ==
  keysPc # "call" =>
    IF issuePattern # EmptyPattern /\ "error" \in DOMAIN issuePattern
      THEN keysPc = "panic" /\ gotKeys = << >>
      ELSE keysPc = "done"

\* C38 witness: the panic, for a reference in which both the default pattern
\* and the compiled part of the invalid pattern would find a key.
C38_Witness ==
  /\ keysPc = "panic"
  /\ issuePattern = InvalidPattern
  /\ ref = << "A", "B", "C", "-", "1", "2" >>
  /\ gotKeys = << >>

\* ------------------------------------------- claims: channels, remote calls

\* The goroutines of the running batch function that have made their call and
\* passed the send that follows it.
PastCall == { i \in 1..Len(task) : task[i].pc \in { "exit", "done" } }

\* The recorded calls of the running batch function.
CallsOf(o) == { c \in calls : c.op = Method(o) }

\* The values the collector of the running batch function has received.
Received ==
  IF op = "processIssues"
    THEN Len(issues) + Cardinality({ l \in logs : l.msg = "error getting issue" })
    ELSE Len(errs)

\* C33: in every batch operation the channel is closed once, by the one close
\* statement of the function, and only when every item has its goroutine and
\* every goroutine has finished; no goroutine is ever in the panic of a send on
\* a closed channel; and when the function returns the channel is closed and
\* empty and the collector has received as many values as were sent: one error
\* for each failed call of a mutation function, one result for each call of
\* processIssues.
C33_ClosedOnceAfterEveryTask ==
  op # "none" =>
    /\ closed =>
         /\ Len(task) = Len(Items)
         /\ \A i \in 1..Len(task) : task[i].pc = "done"
         /\ wg = 0
    /\ \A i \in 1..Len(task) : task[i].pc # "panic"
    /\ (mainPc = "close" \/ closerPc = "close") => ~closed
    /\ closed <=> IF op = "processIssues" THEN closerPc = "done"
                  ELSE mainPc \in { "collect", "ret" }
    /\ (mainPc = "ret" /\ ~(op = "processIssues" /\ Len(Items) = 0)) =>
         /\ closed
         /\ results = << >>
         /\ errChan = << >>
         /\ Received = IF op = "processIssues" THEN Cardinality(CallsOf(op))
                       ELSE Cardinality({ c \in CallsOf(op) : ~c.ok })

\* C33 witness: processAssignee has closed its channel after both goroutines
\* finished, and the two errors they sent are still in it for the collector.
C33_Witness ==
  /\ op = "processAssignee"
  /\ closed
  /\ mainPc = "collect"
  /\ Len(errChan) = 2
  /\ \A i \in 1..Len(task) : task[i].pc = "done"

\* C34: while a batch operation runs, its channel never holds more values than
\* its capacity, the item count N; the values sent (in the channel or already
\* received) are never more than the goroutines that have passed their send;
\* and no goroutine is ever blocked in a send, whether or not the collector
\* has started to receive.
C34_SendNeverBlocks ==
  op # "none" =>
    /\ Capacity = Len(Items)
    /\ Len(results) <= Capacity
    /\ Len(errChan) <= Capacity
    /\ Len(results) + Len(errChan) + Received <= Cardinality(PastCall)
    /\ \A i \in 1..Len(task) : task[i].pc # "send"

\* C34 witness: every goroutine of addComments has sent its error, the
\* channel is full, and the function is still in wg.Wait(), before its
\* collector.
C34_Witness ==
  /\ op = "addComments"
  /\ mainPc = "wait"
  /\ Capacity >= 2
  /\ Len(errChan) = Capacity
  /\ errs = << >>

\* C35: in processIssues, processAssignee and addComments, a goroutine that
\* has not made its call has no call recorded for its item and one that has
\* made it has exactly one, successful or failed; the step in which a goroutine
\* makes its call takes it past the call, and no step of a goroutine past its
\* call adds a call or takes it back; at the return the calls of the function
\* are as many as its items.
C35_OneCallPerItem ==
  /\ [](op \in { "processIssues", "processAssignee", "addComments" } =>
          /\ \A i \in 1..Len(task) :
               Cardinality({ c \in CallsOf(op) : c.key = task[i].iss.Key })
                 = IF task[i].pc = "call" THEN 0 ELSE 1
          /\ mainPc = "ret" => Cardinality(CallsOf(op)) = Len(Items))
  /\ [][ (op \in { "processIssues", "processAssignee", "addComments" } /\ op' = op) =>
           \A i \in 1..Len(task) :
             /\ (task[i].pc = "call" /\ task'[i] # task[i]) =>
                  /\ task'[i].pc # "call"
                  /\ \E c \in calls' : c.key = task[i].iss.Key /\ c.op = Method(op)
             /\ task[i].pc # "call" =>
                  /\ task'[i].pc # "call"
                  /\ { c \in calls' : c.key = task[i].iss.Key }
                       = { c \in calls : c.key = task[i].iss.Key } ]_vars

\* C35 witness: processIssues has returned after two calls, one failed and
\* one successful.
C35_Witness ==
  /\ op = "processIssues"
  /\ mainPc = "ret"
  /\ Len(Items) = 2
  /\ Cardinality(CallsOf(op)) = 2
  /\ \E c \in CallsOf(op) : ~c.ok
  /\ \E c \in CallsOf(op) : c.ok

\* ------------------------------------------------------ claims: termination

\* C32: under fair scheduling and with every remote call returning, each of
\* processIssues, processTransitions, processAssignee and addComments, called
\* over N >= 0 items, returns, whatever each call gave and whether or not the
\* deadline passed; and until it has returned, one of its goroutines can take
\* a step: none of them is stuck on the wait group, a send or the receive loop.
C32_BatchReturns ==
  /\ <>(mainPc = "ret")
  /\ [](mainPc = "ret" \/ ENABLED (MainStep \/ CloserStep \/ \E i \in 1..MaxKeys : TaskStep(i)))

\* C32 witness: processTransitions has returned over two issues, one of whose
\* goroutines failed, after the deadline passed.
C32_Witness ==
  /\ op = "processTransitions"
  /\ mainPc = "ret"
  /\ Len(task) = 2
  /\ Len(errs) = 1
  /\ ctxDone

====
